---------------------------- MODULE Spec2Model ----------------------------
(***************************************************************************)
(* Relational core of the community board: the seven tables created by the *)
(* migrations (users, categories, tags, posts, comments, post_tags, likes) *)
(* with their unique / foreign-key / cascade rules, the UserRepository and *)
(* the UserService.  Every await of the code is one step: a caller runs    *)
(* one SQL statement per step, so calls of different callers interleave    *)
(* statement by statement, as they do on the shared knex connection pool.  *)
(***************************************************************************)
EXTENDS Integers, FiniteSets, Sequences, TLC

(***************************************************************************)
(* Bounds of the model.                                                    *)
(***************************************************************************)
\* highest value an auto-increment id takes (inserts stop there)
MaxId == 2
\* callers whose calls may interleave
NumProcs == 2
\* distinct salts bcrypt may draw
NumSalts == 1
\* largest id the sequences of categories and tags hand out
MaxRefId == 1

Procs == 1..NumProcs
Salts == 1..NumSalts

(***************************************************************************)
(* Values.                                                                 *)
(***************************************************************************)
\* SQL NULL / JavaScript null in a string column
NULL == "null"
\* a field that is absent from an input object (JavaScript undefined)
UNDEF == "undefined"
\* "no id": a NULL integer column, an omitted excludeId
NoId == 0

Emails == {"a@x.com", "b@x.com"}
Nicknames == {"nick-a", "nick-b"}
PlainPasswords == {"pw1", "pw2"}
ProfileUrls == {"http://p"}
Roles == {"user", "admin"}
Statuses == {"active", "suspended", "deleted"}

\* A password string is either a plaintext or the output of bcrypt.hash,
\* which embeds the salt it drew.
Plain(p) == [kind |-> "plain", salt |-> 0, text |-> p]
UndefPassword == [kind |-> UNDEF, salt |-> 0, text |-> UNDEF]

VARIABLES
    users,       \* rows of table users
    categories,  \* rows of table categories
    tags,        \* rows of table tags
    posts,       \* rows of table posts
    comments,    \* rows of table comments
    post_tags,   \* rows of table post_tags
    likes,       \* rows of table likes
    seq,         \* per table, the last auto-increment id handed out
    call         \* per caller, the call in flight or its outcome

others == <<categories, tags, posts, comments, post_tags, likes>>
db == <<users, categories, tags, posts, comments, post_tags, likes, seq>>
vars == <<users, categories, tags, posts, comments, post_tags, likes, seq, call>>

(***************************************************************************)
(* bcrypt                                                                  *)
(***************************************************************************)
\* bcrypt.hash(password, rounds): a salted digest; two hashes of one
\* password differ when their salts differ.
hashPassword(password, salt) ==
    [kind |-> "bcrypt", salt |-> salt, text |-> password.text]

\* bcrypt.compare(plain, hash): re-hash with the salt stored in the hash.
comparePassword(plainPassword, hashedPassword) ==
    /\ hashedPassword.kind = "bcrypt"
    /\ hashPassword(plainPassword, hashedPassword.salt) = hashedPassword


(***************************************************************************)
(* Rows.  Columns that no rule reads (title, content, description and the  *)
(* timestamps) are left out of the rows.                                   *)
(***************************************************************************)
Ids(rows) == {r.id : r \in rows}

\* an input object of the user domain; an absent field is UNDEF
NoInput ==
    [email |-> UNDEF, password |-> UndefPassword, nickname |-> UNDEF,
     profile_url |-> UNDEF, role |-> UNDEF, status |-> UNDEF]

(***************************************************************************)
(* Schema rules of table users: primary key id, unique email, unique       *)
(* nickname.                                                               *)
(***************************************************************************)
\* variant without the unique index on nickname
UsersUniqueOkNoNickname(row, rest) ==
    \A u \in rest : u.id # row.id /\ u.email # row.email
UsersUniqueOk(row, rest) ==
    \A u \in rest :
        /\ u.id # row.id
        /\ u.email # row.email
        /\ u.nickname # row.nickname

(***************************************************************************)
(* ON DELETE CASCADE.  comments.parent_id references comments.id, so the   *)
(* deletion of a comment removes its replies, and theirs.                  *)
(***************************************************************************)
RECURSIVE ReplyClosure(_, _)
ReplyClosure(all, dead) ==
    LET more == {c \in all \ dead : c.parent_id \in Ids(dead)}
    IN  IF more = {} THEN dead ELSE ReplyClosure(all, dead \cup more)

\* comments that go when the posts deadPosts and the users deadUsers go
CommentsOf(deadPosts, deadUsers) ==
    ReplyClosure(comments,
        {c \in comments : c.post_id \in Ids(deadPosts) \/ c.user_id \in Ids(deadUsers)})

\* variant without the cascade to likes
SqlDeleteUsers_keepLikes(dead) ==
    LET deadPosts == {p \in posts : p.user_id \in Ids(dead)}
    IN  /\ users' = users \ dead
        /\ posts' = posts \ deadPosts
        /\ comments' = comments \ CommentsOf(deadPosts, dead)
        /\ post_tags' = {pt \in post_tags : pt.post_id \notin Ids(deadPosts)}
        /\ UNCHANGED <<categories, tags, likes, seq>>
\* delete from users where id in Ids(dead): posts, comments and likes of the
\* users cascade; post_tags cascade from the posts
SqlDeleteUsers(dead) ==
    LET deadPosts == {p \in posts : p.user_id \in Ids(dead)}
    IN  /\ users' = users \ dead
        /\ posts' = posts \ deadPosts
        /\ comments' = comments \ CommentsOf(deadPosts, dead)
        /\ post_tags' = {pt \in post_tags : pt.post_id \notin Ids(deadPosts)}
        /\ likes' = {l \in likes : l.user_id \notin Ids(dead)}
        /\ UNCHANGED <<categories, tags, seq>>

(***************************************************************************)
(* Calls.  call[p] is the call caller p has in flight: the method, the     *)
(* statement it runs next (pc), its arguments (id, input, or the row a     *)
(* plain SQL statement is given), its locals and, once pc is "done", what  *)
(* it returned or threw.                                                   *)
(***************************************************************************)
Pending == [kind |-> "pending", val |-> "", rows |-> {}]
Throw(msg) == [kind |-> "throw", val |-> msg, rows |-> {}]
\* a User (or null) built by User.fromEntity from the row read
ReturnUser(rows) ==
    [kind |-> "return", val |-> IF rows = {} THEN "null" ELSE "user", rows |-> rows]
ReturnVal(v) == [kind |-> "return", val |-> v, rows |-> {}]

UniqueError == "UNIQUE constraint failed"
EmptyUpdateError == "Empty .update() call detected!"

NewCall(op, id, input) ==
    [op |-> op, pc |-> "start", id |-> id, input |-> input,
     existing |-> {}, newId |-> NoId, row |-> {}, res |-> Pending]
NoCall == [NewCall("none", NoId, NoInput) EXCEPT !.pc = "done"]

Idle(p) == call[p] = NoCall
At(p, op, pc) == call[p].op = op /\ call[p].pc = pc
Finish(p, c, res) == call' = [call EXCEPT ![p] = [c EXCEPT !.pc = "done", !.res = res]]
Goto(p, c, pc) == call' = [call EXCEPT ![p] = [c EXCEPT !.pc = pc]]

(***************************************************************************)
(* UserRepository                                                          *)
(***************************************************************************)
findById(id) == {u \in users : u.id = id}
findByEmail(email) == {u \in users : u.email = email}
findByNickname(nickname) == {u \in users : u.nickname = nickname}

existsByEmail(email, excludeId) ==
    \E u \in users : u.email = email /\ (excludeId # NoId => u.id # excludeId)

existsByNickname(nickname, excludeId) ==
    \E u \in users : u.nickname = nickname /\ (excludeId # NoId => u.id # excludeId)

\* the row create() inserts: `x || d` takes d for undefined, null and ''
NewUserRow(id, data) ==
    [id |-> id,
     email |-> data.email,
     password |-> data.password,
     nickname |-> data.nickname,
     profile_url |-> IF data.profile_url \in {UNDEF, NULL, ""} THEN NULL ELSE data.profile_url,
     role |-> IF data.role \in {UNDEF, ""} THEN "user" ELSE data.role,
     status |-> IF data.status \in {UNDEF, ""} THEN "active" ELSE data.status]

\* create(): the insert statement
create_insert(p, c, data) ==
    /\ seq.users < MaxId
    /\ LET row == NewUserRow(seq.users + 1, data)
       IN  IF UsersUniqueOk(row, users)
           THEN /\ users' = users \cup {row}
                /\ seq' = [seq EXCEPT !.users = row.id]
                /\ UNCHANGED others
                /\ Goto(p, [c EXCEPT !.newId = row.id], "create_findById")
           ELSE /\ UNCHANGED db
                /\ Finish(p, c, Throw(UniqueError))

\* create(): the read-back of the inserted row
create_findById(p, c) ==
    /\ UNCHANGED db
    /\ IF findById(c.newId) = {}
       THEN Finish(p, c, Throw("Failed to create user"))
       ELSE Finish(p, c, ReturnUser(findById(c.newId)))

\* update(): the columns of data that are not undefined
Supplied(data) ==
    {f \in DOMAIN data : IF f = "password" THEN data[f] # UndefPassword ELSE data[f] # UNDEF}

\* update(): the row with the supplied columns replaced
\* variant that never writes the status column
UpdatedRow_ignoresStatus(row, data) ==
    [f \in DOMAIN row |-> IF f \in Supplied(data) \ {"status"} THEN data[f] ELSE row[f]]
UpdatedRow(row, data) ==
    [f \in DOMAIN row |-> IF f \in Supplied(data) THEN data[f] ELSE row[f]]

\* what the caller of repository.update() makes of its result
UpdateOutcome(op, res) ==
    CASE op = "updateUser" /\ res.kind = "return" /\ res.val = "null" ->
            Throw("Failed to update user")
      [] op = "updatePassword" /\ res.kind = "return" -> ReturnVal("void")
      [] OTHER -> res

\* update(): the update statement.  knex refuses an update without columns.
update_update(p, c, id, data) ==
    IF Supplied(data) = {}
    THEN /\ UNCHANGED db
         /\ Finish(p, c, UpdateOutcome(c.op, Throw(EmptyUpdateError)))
    ELSE IF findById(id) = {}
    THEN /\ UNCHANGED db
         /\ Finish(p, c, UpdateOutcome(c.op, ReturnUser({})))
    ELSE LET old == CHOOSE u \in users : u.id = id
             new == UpdatedRow(old, data)
         IN  IF UsersUniqueOk(new, users \ {old})
             THEN /\ users' = (users \ {old}) \cup {new}
                  /\ UNCHANGED <<others, seq>>
                  /\ Goto(p, c, "update_findById")
             ELSE /\ UNCHANGED db
                  /\ Finish(p, c, UpdateOutcome(c.op, Throw(UniqueError)))

\* update(): the read-back of the updated row
update_findById(p, c) ==
    /\ UNCHANGED db
    /\ Finish(p, c, UpdateOutcome(c.op, ReturnUser(findById(c.id))))

\* delete(): one statement; true when a row was removed
\* variant that matches the row but does not remove it
delete_keepsRow(p, c) ==
    /\ UNCHANGED db
    /\ Finish(p, c, ReturnVal(IF findById(c.id) # {} THEN "true" ELSE "false"))
delete(p, c) ==
    /\ SqlDeleteUsers(findById(c.id))
    /\ Finish(p, c, ReturnVal(IF findById(c.id) # {} THEN "true" ELSE "false"))


\* findById / findByEmail / findByNickname called on their own
find(p, c) ==
    /\ UNCHANGED db
    /\ Finish(p, c, ReturnUser(
          CASE c.op \in {"findById", "getUserById"} -> findById(c.id)
            [] c.op \in {"findByEmail", "getUserByEmail"} -> findByEmail(c.input.email)
            [] OTHER -> findByNickname(c.input.nickname)))

(***************************************************************************)
(* UserService                                                             *)
(***************************************************************************)
\* createUser: the duplicate checks, each its own statement
\* variant that skips the email check
createUser_existsByEmail_unchecked(p, c) ==
    /\ UNCHANGED db
    /\ Goto(p, c, "existsByNickname")
createUser_existsByEmail(p, c) ==
    /\ UNCHANGED db
    /\ IF existsByEmail(c.input.email, NoId)
       THEN Finish(p, c, Throw("Email already exists"))
       ELSE Goto(p, c, "existsByNickname")

createUser_existsByNickname(p, c) ==
    /\ UNCHANGED db
    /\ IF existsByNickname(c.input.nickname, NoId)
       THEN Finish(p, c, Throw("Nickname already exists"))
       ELSE Goto(p, c, "insert")

\* createUser: what it hands to repository.create
\* variant that stores the password as given
CreateUserData_plaintext(input, salt) ==
    [email |-> input.email, password |-> input.password, nickname |-> input.nickname,
     profile_url |-> input.profile_url, role |-> UNDEF, status |-> UNDEF]
CreateUserData(input, salt) ==
    [email |-> input.email,
     password |-> hashPassword(input.password, salt),
     nickname |-> input.nickname,
     profile_url |-> input.profile_url,
     role |-> UNDEF,
     status |-> UNDEF]

createUser_create(p, c) ==
    \E salt \in Salts : create_insert(p, c, CreateUserData(c.input, salt))

\* getUserProfile
getUserProfile(p, c) ==
    /\ UNCHANGED db
    /\ IF findById(c.id) = {}
       THEN Finish(p, c, Throw("User not found"))
       ELSE Finish(p, c, [kind |-> "return", val |-> "safeUser", rows |-> findById(c.id)])

\* updateUser: which duplicate check follows, given the user read first
NeedsEmailCheck(c) ==
    /\ c.input.email # UNDEF
    /\ \A u \in c.existing : c.input.email # u.email
NeedsNicknameCheck(c) ==
    /\ c.input.nickname # UNDEF
    /\ \A u \in c.existing : c.input.nickname # u.nickname

updateUser_findById(p, c) ==
    /\ UNCHANGED db
    /\ IF findById(c.id) = {}
       THEN Finish(p, c, Throw("User not found"))
       ELSE LET d == [c EXCEPT !.existing = findById(c.id)]
            IN  Goto(p, d, IF NeedsEmailCheck(d) THEN "existsByEmail"
                           ELSE IF NeedsNicknameCheck(d) THEN "existsByNickname"
                           ELSE "update")

\* variant that skips the email check
updateUser_existsByEmail_unchecked(p, c) ==
    /\ UNCHANGED db
    /\ Goto(p, c, IF NeedsNicknameCheck(c) THEN "existsByNickname" ELSE "update")
updateUser_existsByEmail(p, c) ==
    /\ UNCHANGED db
    /\ IF existsByEmail(c.input.email, c.id)
       THEN Finish(p, c, Throw("Email already exists"))
       ELSE Goto(p, c, IF NeedsNicknameCheck(c) THEN "existsByNickname" ELSE "update")

updateUser_existsByNickname(p, c) ==
    /\ UNCHANGED db
    /\ IF existsByNickname(c.input.nickname, c.id)
       THEN Finish(p, c, Throw("Nickname already exists"))
       ELSE Goto(p, c, "update")

\* updateUser: what it hands to repository.update
\* variant that forwards the role and status of the input
UpdateUserData_forwardsRole(input, salt) ==
    [email |-> input.email,
     password |-> IF input.password # UndefPassword
                  THEN hashPassword(input.password, salt)
                  ELSE UndefPassword,
     nickname |-> input.nickname,
     profile_url |-> input.profile_url,
     role |-> input.role,
     status |-> input.status]
UpdateUserData(input, salt) ==
    [email |-> input.email,
     password |-> IF input.password # UndefPassword
                  THEN hashPassword(input.password, salt)
                  ELSE UndefPassword,
     nickname |-> input.nickname,
     profile_url |-> input.profile_url,
     role |-> UNDEF,
     status |-> UNDEF]

updateUser_update(p, c) ==
    \E salt \in Salts : update_update(p, c, c.id, UpdateUserData(c.input, salt))

\* updatePassword
\* variant that does not look the user up
updatePassword_findById_unchecked(p, c) ==
    /\ UNCHANGED db
    /\ Goto(p, c, "update")
updatePassword_findById(p, c) ==
    /\ UNCHANGED db
    /\ IF findById(c.id) = {}
       THEN Finish(p, c, Throw("User not found"))
       ELSE Goto(p, c, "update")

updatePassword_update(p, c) ==
    \E salt \in Salts :
        update_update(p, c, c.id,
            [NoInput EXCEPT !.password = hashPassword(c.input.password, salt)])

(***************************************************************************)
(* The methods as actions: a caller that has no call in flight starts one  *)
(* (its first statement runs at once), a caller inside a call runs the     *)
(* call's next statement.  Args are the arguments the calls are made with. *)
(***************************************************************************)
CreateUser(p, Args) ==
    \/ /\ Idle(p)
       /\ \E input \in Args : createUser_existsByEmail(p, NewCall("createUser", NoId, input))
    \/ /\ At(p, "createUser", "existsByNickname")
       /\ createUser_existsByNickname(p, call[p])
    \/ /\ At(p, "createUser", "insert")
       /\ createUser_create(p, call[p])
    \/ /\ At(p, "createUser", "create_findById")
       /\ create_findById(p, call[p])

RepoCreate(p, Args) ==
    \/ /\ Idle(p)
       /\ \E data \in Args : create_insert(p, NewCall("create", NoId, data), data)
    \/ /\ At(p, "create", "create_findById")
       /\ create_findById(p, call[p])

UpdateUser(p, IdArgs, Args) ==
    \/ /\ Idle(p)
       /\ \E id \in IdArgs, input \in Args :
              updateUser_findById(p, NewCall("updateUser", id, input))
    \/ /\ At(p, "updateUser", "existsByEmail")
       /\ updateUser_existsByEmail(p, call[p])
    \/ /\ At(p, "updateUser", "existsByNickname")
       /\ updateUser_existsByNickname(p, call[p])
    \/ /\ At(p, "updateUser", "update")
       /\ updateUser_update(p, call[p])
    \/ /\ At(p, "updateUser", "update_findById")
       /\ update_findById(p, call[p])

UpdatePassword(p, IdArgs, Args) ==
    \/ /\ Idle(p)
       /\ \E id \in IdArgs, input \in Args :
              updatePassword_findById(p, NewCall("updatePassword", id, input))
    \/ /\ At(p, "updatePassword", "update")
       /\ updatePassword_update(p, call[p])
    \/ /\ At(p, "updatePassword", "update_findById")
       /\ update_findById(p, call[p])

RepoUpdate(p, IdArgs, Args) ==
    \/ /\ Idle(p)
       /\ \E id \in IdArgs, data \in Args :
              update_update(p, NewCall("update", id, data), id, data)
    \/ /\ At(p, "update", "update_findById")
       /\ update_findById(p, call[p])

RepoDelete(p, IdArgs) ==
    /\ Idle(p)
    /\ \E id \in IdArgs : delete(p, NewCall("delete", id, NoInput))

GetUserProfile(p, IdArgs) ==
    /\ Idle(p)
    /\ \E id \in IdArgs : getUserProfile(p, NewCall("getUserProfile", id, NoInput))

\* getUserById, getUserByEmail and the repository's three point lookups
Find(p, IdArgs) ==
    /\ Idle(p)
    /\ \/ \E id \in IdArgs, op \in {"findById", "getUserById"} :
              find(p, NewCall(op, id, NoInput))
       \/ \E e \in Emails, op \in {"findByEmail", "getUserByEmail"} :
              find(p, NewCall(op, NoId, [NoInput EXCEPT !.email = e]))
       \/ \E n \in Nicknames :
              find(p, NewCall("findByNickname", NoId, [NoInput EXCEPT !.nickname = n]))

\* the caller takes the outcome of its call; it may then start another
Return(p) ==
    /\ call[p].pc = "done"
    /\ call[p].op # "none"
    /\ call' = [call EXCEPT ![p] = NoCall]
    /\ UNCHANGED db

(***************************************************************************)
(* The migrations, in file order: each creates one table.  seq.tables      *)
(* holds the tables that exist, seq.migrated the number of migrations      *)
(* recorded as applied.                                                    *)
(***************************************************************************)
Migrations == <<"users", "categories", "tags", "posts", "comments", "post_tags", "likes">>

AllTables == {Migrations[i] : i \in 1..Len(Migrations)}

(***************************************************************************)
(* The state after the migrations ran on an empty database.                *)
(***************************************************************************)
Init ==
    /\ users = {}
    /\ categories = {}
    /\ tags = {}
    /\ posts = {}
    /\ comments = {}
    /\ post_tags = {}
    /\ likes = {}
    /\ seq = [users |-> 0, categories |-> 0, tags |-> 0, posts |-> 0,
              comments |-> 0, likes |-> 0,
              tables |-> AllTables, migrated |-> Len(Migrations)]
    /\ call = [p \in Procs |-> NoCall]

\* the empty database, before any migration
EmptyInit ==
    /\ users = {}
    /\ categories = {}
    /\ tags = {}
    /\ posts = {}
    /\ comments = {}
    /\ post_tags = {}
    /\ likes = {}
    /\ seq = [users |-> 0, categories |-> 0, tags |-> 0, posts |-> 0,
              comments |-> 0, likes |-> 0,
              tables |-> {}, migrated |-> 0]
    /\ call = [p \in Procs |-> NoCall]

(***************************************************************************)
(* Spec: one caller goes through UserService, call after call.             *)
(***************************************************************************)
UserIds == 1..(MaxId + 1)

ServiceCreateArgs ==
    {[NoInput EXCEPT !.email = e, !.password = Plain(pw), !.nickname = n, !.profile_url = u] :
        e \in Emails, pw \in PlainPasswords, n \in Nicknames, u \in {UNDEF} \cup ProfileUrls}

ServiceUpdateArgs ==
    {[NoInput EXCEPT !.email = e, !.password = pw, !.nickname = n] :
        e \in {UNDEF} \cup Emails, pw \in {UndefPassword, Plain("pw2")},
        n \in {UNDEF} \cup Nicknames}
    \cup {[NoInput EXCEPT !.profile_url = u] : u \in {NULL} \cup ProfileUrls}

PasswordArgs == {[NoInput EXCEPT !.password = Plain(pw)] : pw \in PlainPasswords}

Next ==
    \/ CreateUser(1, ServiceCreateArgs)
    \/ UpdateUser(1, UserIds, ServiceUpdateArgs)
    \/ UpdatePassword(1, UserIds, PasswordArgs)
    \/ GetUserProfile(1, UserIds)
    \/ Find(1, UserIds)
    \/ Return(1)

Spec == Init /\ [][Next]_vars

(***************************************************************************)
(* RepoSpec: one caller uses UserRepository directly, call after call.     *)
(***************************************************************************)
RepoCreateArgs ==
    {[NoInput EXCEPT !.email = e, !.password = hashPassword(Plain("pw1"), 1),
                     !.nickname = n, !.role = r] :
        e \in Emails, n \in Nicknames, r \in {UNDEF, "admin"}}

RepoUpdateArgs ==
    {NoInput}
    \cup {[NoInput EXCEPT !.email = e] : e \in Emails}
    \cup {[NoInput EXCEPT !.nickname = n] : n \in Nicknames}
    \cup {[NoInput EXCEPT !.profile_url = u] : u \in {NULL} \cup ProfileUrls}
    \cup {[NoInput EXCEPT !.role = r] : r \in Roles}
    \cup {[NoInput EXCEPT !.status = s] : s \in Statuses}
    \cup {[NoInput EXCEPT !.password = hashPassword(Plain("pw2"), 1), !.status = "suspended"]}

\* softDelete(id) is update(id, {status: 'deleted'})
RepoSoftDelete(p, IdArgs) ==
    RepoUpdate(p, IdArgs, {[NoInput EXCEPT !.status = "deleted"]})

RepoNext ==
    \/ RepoCreate(1, RepoCreateArgs)
    \/ RepoUpdate(1, UserIds, RepoUpdateArgs)
    \/ RepoSoftDelete(1, UserIds)
    \/ RepoDelete(1, UserIds)
    \/ Find(1, UserIds)
    \/ Return(1)

RepoSpec == Init /\ [][RepoNext]_vars

(***************************************************************************)
(* Writes that bypass the repository: knex('users').insert(row), as the    *)
(* migration tests issue it, and the users seed.                           *)
(***************************************************************************)
AdminEmail == "admin@community.local"
AdminNickname == "admin"

Max(a, b) == IF a > b THEN a ELSE b

\* the outcome of a statement issued on its own
Sql(p, op, id, row, res) ==
    call' = [call EXCEPT ![p] =
                [NewCall(op, id, NoInput) EXCEPT !.pc = "done", !.row = row, !.res = res]]

insert_users(p, data) ==
    /\ seq.users < MaxId
    /\ LET row == NewUserRow(seq.users + 1, data)
       IN  IF UsersUniqueOk(row, users)
           THEN /\ users' = users \cup {row}
                /\ seq' = [seq EXCEPT !.users = row.id]
                /\ UNCHANGED others
                /\ Sql(p, "insert users", NoId, {row}, ReturnVal("ok"))
           ELSE /\ UNCHANGED db
                /\ Sql(p, "insert users", NoId, {row}, Throw(UniqueError))

\* seed of users: delete every row ...
seed_del(p, c) ==
    /\ SqlDeleteUsers(users)
    /\ Goto(p, c, "insert")

\* ... then insert the administrator with id 1
seed_insert(p, c) ==
    \E salt \in Salts :
        LET row == [id |-> 1, email |-> AdminEmail,
                    password |-> hashPassword(Plain("admin123!"), salt),
                    nickname |-> AdminNickname, profile_url |-> NULL,
                    role |-> "admin", status |-> "active"]
        IN  IF UsersUniqueOk(row, users)
            THEN /\ users' = users \cup {row}
                 /\ seq' = [seq EXCEPT !.users = Max(seq.users, row.id)]
                 /\ UNCHANGED others
                 /\ Finish(p, c, ReturnVal("void"))
            ELSE /\ UNCHANGED db
                 /\ Finish(p, c, Throw(UniqueError))

InsertUser(p, Args) ==
    /\ Idle(p)
    /\ \E data \in Args : insert_users(p, data)

SeedUsers(p) ==
    \/ /\ Idle(p)
       /\ seed_del(p, NewCall("seed users", NoId, NoInput))
    \/ /\ At(p, "seed users", "insert")
       /\ seed_insert(p, call[p])

(***************************************************************************)
(* ConcSpec: the callers write to users side by side; the statements of    *)
(* their calls interleave.                                                 *)
(***************************************************************************)
ConcCreateArgs ==
    {[NoInput EXCEPT !.email = e, !.password = Plain("pw1"), !.nickname = n] :
        e \in Emails, n \in Nicknames} \ {[NoInput EXCEPT !.email = "b@x.com",
        !.password = Plain("pw1"), !.nickname = "nick-b"]}

ConcUpdateArgs ==
    {[NoInput EXCEPT !.email = "b@x.com"], [NoInput EXCEPT !.nickname = "nick-b"]}

ConcCreateArgs2 ==
    {[NoInput EXCEPT !.email = "a@x.com", !.password = Plain("pw1"), !.nickname = "nick-a"]}

ConcUpdateArgs2 == {[NoInput EXCEPT !.email = "b@x.com"]}

ConcUpdateRows == {[NoInput EXCEPT !.nickname = "nick-b"]}

ConcCreateRows ==
    {[NoInput EXCEPT !.email = AdminEmail, !.password = hashPassword(Plain("pw1"), 1),
                     !.nickname = "nick-b"]}

ConcInsertRows ==
    {[NoInput EXCEPT !.email = "b@x.com", !.password = hashPassword(Plain("pw1"), 1),
                     !.nickname = "nick-a"]}

ConcIds == 1..MaxId

\* caller 1 goes through the service; caller 2 also writes below it
ConcNext ==
    \/ CreateUser(1, ConcCreateArgs)
    \/ UpdateUser(1, ConcIds, ConcUpdateArgs)
    \/ Return(1)
    \/ CreateUser(2, ConcCreateArgs2)
    \/ UpdateUser(2, ConcIds, ConcUpdateArgs2)
    \/ RepoCreate(2, ConcCreateRows)
    \/ RepoUpdate(2, ConcIds, ConcUpdateRows)
    \/ InsertUser(2, ConcInsertRows)
    \/ SeedUsers(2)
    \/ Return(2)

ConcSpec == Init /\ [][ConcNext]_vars

(***************************************************************************)
(* RaceSpec: every caller goes through UserService only.                   *)
(***************************************************************************)
RaceNext ==
    \E p \in Procs :
        \/ CreateUser(p, ConcCreateArgs)
        \/ UpdateUser(p, ConcIds, ConcUpdateArgs)
        \/ Return(p)

RaceSpec == Init /\ [][RaceNext]_vars

(***************************************************************************)
(* The other tables have no repository: rows are written with plain        *)
(* statements.  Foreign keys are enforced (InnoDB; PRAGMA foreign_keys on  *)
(* the SQLite connection).  A NULL parent_id is NoId.                      *)
(***************************************************************************)
ForeignKeyError == "FOREIGN KEY constraint failed"

\* variant without the foreign key on category_id
PostRefsOk_noCategory(row) == row.user_id \in Ids(users)
PostRefsOk(row) ==
    /\ row.user_id \in Ids(users)
    /\ row.category_id \in Ids(categories)

CommentRefsOk(row) ==
    /\ row.user_id \in Ids(users)
    /\ row.post_id \in Ids(posts)
    /\ row.parent_id # NoId => row.parent_id \in Ids(comments)

PostTagRefsOk(row) ==
    /\ row.post_id \in Ids(posts)
    /\ row.tag_id \in Ids(tags)

LikeRefsOk(row) == row.user_id \in Ids(users)

NameUniqueOk(row, rest) == \A r \in rest : r.id # row.id /\ r.name # row.name

\* variant without the unique index on (user_id, target_type, target_id)
LikeUniqueOk_idOnly(row, rest) == \A l \in rest : l.id # row.id
LikeUniqueOk(row, rest) ==
    \A l \in rest :
        /\ l.id # row.id
        /\ <<l.user_id, l.target_type, l.target_id>> #
              <<row.user_id, row.target_type, row.target_id>>

insert_categories(p, name) ==
    /\ seq.categories < MaxRefId
    /\ LET row == [id |-> seq.categories + 1, name |-> name]
       IN  IF NameUniqueOk(row, categories)
           THEN /\ categories' = categories \cup {row}
                /\ seq' = [seq EXCEPT !.categories = row.id]
                /\ UNCHANGED <<users, tags, posts, comments, post_tags, likes>>
                /\ Sql(p, "insert categories", NoId, {row}, ReturnVal("ok"))
           ELSE /\ UNCHANGED db
                /\ Sql(p, "insert categories", NoId, {row}, Throw(UniqueError))

insert_tags(p, name) ==
    /\ seq.tags < MaxRefId
    /\ LET row == [id |-> seq.tags + 1, name |-> name]
       IN  IF NameUniqueOk(row, tags)
           THEN /\ tags' = tags \cup {row}
                /\ seq' = [seq EXCEPT !.tags = row.id]
                /\ UNCHANGED <<users, categories, posts, comments, post_tags, likes>>
                /\ Sql(p, "insert tags", NoId, {row}, ReturnVal("ok"))
           ELSE /\ UNCHANGED db
                /\ Sql(p, "insert tags", NoId, {row}, Throw(UniqueError))

insert_posts(p, user_id, category_id) ==
    /\ seq.posts < MaxId
    /\ LET row == [id |-> seq.posts + 1, user_id |-> user_id, category_id |-> category_id,
                   likes_count |-> 0]
       IN  IF PostRefsOk(row)
           THEN /\ posts' = posts \cup {row}
                /\ seq' = [seq EXCEPT !.posts = row.id]
                /\ UNCHANGED <<users, categories, tags, comments, post_tags, likes>>
                /\ Sql(p, "insert posts", NoId, {row}, ReturnVal("ok"))
           ELSE /\ UNCHANGED db
                /\ Sql(p, "insert posts", NoId, {row}, Throw(ForeignKeyError))

insert_comments(p, user_id, post_id, parent_id) ==
    /\ seq.comments < MaxId
    /\ LET row == [id |-> seq.comments + 1, user_id |-> user_id, post_id |-> post_id,
                   parent_id |-> parent_id, likes_count |-> 0]
       IN  IF CommentRefsOk(row)
           THEN /\ comments' = comments \cup {row}
                /\ seq' = [seq EXCEPT !.comments = row.id]
                /\ UNCHANGED <<users, categories, tags, posts, post_tags, likes>>
                /\ Sql(p, "insert comments", NoId, {row}, ReturnVal("ok"))
           ELSE /\ UNCHANGED db
                /\ Sql(p, "insert comments", NoId, {row}, Throw(ForeignKeyError))

insert_post_tags(p, post_id, tag_id) ==
    LET row == [post_id |-> post_id, tag_id |-> tag_id]
    IN  IF ~PostTagRefsOk(row)
        THEN /\ UNCHANGED db
             /\ Sql(p, "insert post_tags", NoId, {row}, Throw(ForeignKeyError))
        ELSE IF row \in post_tags
        THEN /\ UNCHANGED db
             /\ Sql(p, "insert post_tags", NoId, {row}, Throw(UniqueError))
        ELSE /\ post_tags' = post_tags \cup {row}
             /\ UNCHANGED <<users, categories, tags, posts, comments, likes, seq>>
             /\ Sql(p, "insert post_tags", NoId, {row}, ReturnVal("ok"))

insert_likes(p, user_id, target_type, target_id) ==
    LET row == [id |-> seq.likes + 1, user_id |-> user_id,
                target_type |-> target_type, target_id |-> target_id]
    IN  IF ~LikeRefsOk(row)
        THEN /\ UNCHANGED db
             /\ Sql(p, "insert likes", NoId, {row}, Throw(ForeignKeyError))
        ELSE IF ~LikeUniqueOk(row, likes)
        THEN /\ UNCHANGED db
             /\ Sql(p, "insert likes", NoId, {row}, Throw(UniqueError))
        ELSE /\ seq.likes < MaxId
             /\ likes' = likes \cup {row}
             /\ seq' = [seq EXCEPT !.likes = row.id]
             /\ UNCHANGED <<users, categories, tags, posts, comments, post_tags>>
             /\ Sql(p, "insert likes", NoId, {row}, ReturnVal("ok"))

\* the number of rows a delete statement matched
Count(rows) == IF rows = {} THEN "0" ELSE "1"

\* delete from posts where id = ?: its comments and post_tags cascade
delete_posts(p, id) ==
    LET dead == {x \in posts : x.id = id}
    IN  /\ posts' = posts \ dead
        /\ comments' = comments \ CommentsOf(dead, {})
        /\ post_tags' = {pt \in post_tags : pt.post_id \notin Ids(dead)}
        /\ UNCHANGED <<users, categories, tags, likes, seq>>
        /\ Sql(p, "delete posts", id, {}, ReturnVal(Count(dead)))

\* delete from comments where id = ?: the replies cascade
delete_comments(p, id) ==
    LET dead == {c \in comments : c.id = id}
    IN  /\ comments' = comments \ ReplyClosure(comments, dead)
        /\ UNCHANGED <<users, categories, tags, posts, post_tags, likes, seq>>
        /\ Sql(p, "delete comments", id, {}, ReturnVal(Count(dead)))

\* variant without the restriction
delete_categories_unrestricted(p, id) ==
    LET dead == {c \in categories : c.id = id}
    IN  /\ categories' = categories \ dead
        /\ UNCHANGED <<users, tags, posts, comments, post_tags, likes, seq>>
        /\ Sql(p, "delete categories", id, {}, ReturnVal(Count(dead)))
\* delete from categories where id = ?: restricted while a post refers to it
delete_categories(p, id) ==
    LET dead == {c \in categories : c.id = id}
    IN  IF \E x \in posts : x.category_id \in Ids(dead)
        THEN /\ UNCHANGED db
             /\ Sql(p, "delete categories", id, {}, Throw(ForeignKeyError))
        ELSE /\ categories' = categories \ dead
             /\ UNCHANGED <<users, tags, posts, comments, post_tags, likes, seq>>
             /\ Sql(p, "delete categories", id, {}, ReturnVal(Count(dead)))

\* delete from tags where id = ?: its post_tags cascade
delete_tags(p, id) ==
    LET dead == {t \in tags : t.id = id}
    IN  /\ tags' = tags \ dead
        /\ post_tags' = {pt \in post_tags : pt.tag_id \notin Ids(dead)}
        /\ UNCHANGED <<users, categories, posts, comments, likes, seq>>
        /\ Sql(p, "delete tags", id, {}, ReturnVal(Count(dead)))

InsertCategory(p, Names) == Idle(p) /\ \E n \in Names : insert_categories(p, n)

InsertTag(p, Names) == Idle(p) /\ \E n \in Names : insert_tags(p, n)

InsertPost(p, UIds, CIds) ==
    Idle(p) /\ \E u \in UIds, c \in CIds : insert_posts(p, u, c)

InsertComment(p, UIds, PIds, ParentIds) ==
    Idle(p) /\ \E u \in UIds, x \in PIds, c \in ParentIds : insert_comments(p, u, x, c)

InsertPostTag(p, PIds, TIds) ==
    Idle(p) /\ \E x \in PIds, t \in TIds : insert_post_tags(p, x, t)

InsertLike(p, UIds, Types, TargetIds) ==
    Idle(p) /\ \E u \in UIds, ty \in Types, t \in TargetIds : insert_likes(p, u, ty, t)

DeletePost(p, PIds) == Idle(p) /\ \E id \in PIds : delete_posts(p, id)

DeleteComment(p, CIds) == Idle(p) /\ \E id \in CIds : delete_comments(p, id)

DeleteCategory(p, CIds) == Idle(p) /\ \E id \in CIds : delete_categories(p, id)

DeleteTag(p, TIds) == Idle(p) /\ \E id \in TIds : delete_tags(p, id)

(***************************************************************************)
(* SchemaSpec: one caller issues statements on the seven tables.           *)
(***************************************************************************)
SchemaUserRows ==
    {[NoInput EXCEPT !.email = "a@x.com", !.password = hashPassword(Plain("pw1"), 1),
                     !.nickname = "nick-a"],
     [NoInput EXCEPT !.email = "b@x.com", !.password = hashPassword(Plain("pw1"), 1),
                     !.nickname = "nick-b"]}

SchemaIds == 1..MaxId
SchemaRefIds == 1..MaxRefId

SchemaNext ==
    \/ InsertUser(1, SchemaUserRows)
    \/ InsertCategory(1, {"free"})
    \/ InsertTag(1, {"knex"})
    \/ InsertPost(1, SchemaIds, SchemaRefIds)
    \/ InsertComment(1, SchemaIds, SchemaIds, {NoId} \cup SchemaIds)
    \/ InsertPostTag(1, SchemaIds, SchemaRefIds)
    \/ InsertLike(1, SchemaIds, {"post"}, SchemaRefIds)
    \/ RepoDelete(1, SchemaIds)
    \/ DeletePost(1, SchemaIds)
    \/ DeleteComment(1, SchemaIds)
    \/ DeleteCategory(1, SchemaRefIds)
    \/ DeleteTag(1, SchemaRefIds)
    \/ Return(1)

SchemaSpec == Init /\ [][SchemaNext]_vars


(***************************************************************************)
(* The seed loader.  knex.seed.run() runs the seed files one after the     *)
(* other; a seed that throws ends the run.  Each seed deletes every row of *)
(* its table and inserts its rows with the ids it names.  The users seed   *)
(* and the categories seed come before 003_tags; which of the two is first *)
(* depends on their file names.                                            *)
(***************************************************************************)
\* most runs of the loader made in a row
MaxRuns == 10

SeedOrders == {<<"users", "categories", "tags">>, <<"categories", "users", "tags">>}

SeedCategories ==
    {[id |-> 1, name |-> "notice"], [id |-> 2, name |-> "free"],
     [id |-> 3, name |-> "qna"], [id |-> 4, name |-> "event"]}

SeedTags ==
    {[id |-> 1, name |-> "notice"], [id |-> 2, name |-> "info"],
     [id |-> 3, name |-> "question"], [id |-> 4, name |-> "event"]}

AdminRow(salt) ==
    [id |-> 1, email |-> AdminEmail, password |-> hashPassword(Plain("admin123!"), salt),
     nickname |-> AdminNickname, profile_url |-> NULL, role |-> "admin", status |-> "active"]

MaxIdOf(rows) == CHOOSE n \in Ids(rows) : \A m \in Ids(rows) : m <= n

RowCounts ==
    [users |-> Cardinality(users), categories |-> Cardinality(categories),
     tags |-> Cardinality(tags), posts |-> Cardinality(posts),
     comments |-> Cardinality(comments), post_tags |-> Cardinality(post_tags),
     likes |-> Cardinality(likes)]

\* a run: its number, the order of its seed files, the row counts it started from
NewSeedRun(n, order) ==
    [NewCall("seed run", n, NoInput) EXCEPT !.row = {[order |-> order, before |-> RowCounts]}]

SeedOrder(c) == (CHOOSE r \in c.row : TRUE).order

\* the seed file `name` is through: on to the next one, or the run is over
SeedFileDone(p, c, name) ==
    LET order == SeedOrder(c)
        i == CHOOSE k \in 1..Len(order) : order[k] = name
    IN  IF i < Len(order)
        THEN Goto(p, c, order[i + 1])
        ELSE Finish(p, c, ReturnVal("void"))

\* variant of the users seed that keeps the rows it finds
seed_users_del_none(p, c) ==
    /\ UNCHANGED db
    /\ Goto(p, c, "users insert")
seed_users_del(p, c) ==
    /\ SqlDeleteUsers(users)
    /\ Goto(p, c, "users insert")

seed_users_insert(p, c) ==
    \E salt \in Salts :
        LET row == AdminRow(salt)
        IN  IF UsersUniqueOk(row, users)
            THEN /\ users' = users \cup {row}
                 /\ seq' = [seq EXCEPT !.users = Max(seq.users, row.id)]
                 /\ UNCHANGED others
                 /\ SeedFileDone(p, c, "users")
            ELSE /\ UNCHANGED db
                 /\ Finish(p, c, Throw(UniqueError))

\* delete from categories: refused as a whole while a post names a category
seed_categories_del(p, c) ==
    IF \E x \in posts : x.category_id \in Ids(categories)
    THEN /\ UNCHANGED db
         /\ Finish(p, c, Throw(ForeignKeyError))
    ELSE /\ categories' = {}
         /\ UNCHANGED <<users, tags, posts, comments, post_tags, likes, seq>>
         /\ Goto(p, c, "categories insert")

seed_categories_insert(p, c) ==
    IF \A row \in SeedCategories : NameUniqueOk(row, categories)
    THEN /\ categories' = categories \cup SeedCategories
         /\ seq' = [seq EXCEPT !.categories = Max(seq.categories, MaxIdOf(SeedCategories))]
         /\ UNCHANGED <<users, tags, posts, comments, post_tags, likes>>
         /\ SeedFileDone(p, c, "categories")
    ELSE /\ UNCHANGED db
         /\ Finish(p, c, Throw(UniqueError))

\* delete from tags: the post_tags of every tag cascade
seed_tags_del(p, c) ==
    /\ tags' = {}
    /\ post_tags' = {pt \in post_tags : pt.tag_id \notin Ids(tags)}
    /\ UNCHANGED <<users, categories, posts, comments, likes, seq>>
    /\ Goto(p, c, "tags insert")

seed_tags_insert(p, c) ==
    IF \A row \in SeedTags : NameUniqueOk(row, tags)
    THEN /\ tags' = tags \cup SeedTags
         /\ seq' = [seq EXCEPT !.tags = Max(seq.tags, MaxIdOf(SeedTags))]
         /\ UNCHANGED <<users, categories, posts, comments, post_tags, likes>>
         /\ SeedFileDone(p, c, "tags")
    ELSE /\ UNCHANGED db
         /\ Finish(p, c, Throw(UniqueError))

\* the first statement of a seed file
seed_first(p, c, name) ==
    CASE name = "users" -> seed_users_del(p, c)
      [] name = "categories" -> seed_categories_del(p, c)
      [] name = "tags" -> seed_tags_del(p, c)

SeedRunSteps(p) ==
    \/ /\ At(p, "seed run", "users")
       /\ seed_users_del(p, call[p])
    \/ /\ At(p, "seed run", "users insert")
       /\ seed_users_insert(p, call[p])
    \/ /\ At(p, "seed run", "categories")
       /\ seed_categories_del(p, call[p])
    \/ /\ At(p, "seed run", "categories insert")
       /\ seed_categories_insert(p, call[p])
    \/ /\ At(p, "seed run", "tags")
       /\ seed_tags_del(p, call[p])
    \/ /\ At(p, "seed run", "tags insert")
       /\ seed_tags_insert(p, call[p])

\* knex.seed.run()
SeedRun(p) ==
    \/ /\ Idle(p)
       /\ \E order \in SeedOrders : seed_first(p, NewSeedRun(1, order), order[1])
    \/ SeedRunSteps(p)

\* knex.seed.run() right after a run that completed
SeedRunAgain(p) ==
    /\ At(p, "seed run", "done")
    /\ call[p].res = ReturnVal("void")
    /\ call[p].id < MaxRuns
    /\ \E order \in SeedOrders : seed_first(p, NewSeedRun(call[p].id + 1, order), order[1])

(***************************************************************************)
(* SeedSpec: the loader runs on the freshly migrated database, again and   *)
(* again; nothing else writes.                                             *)
(***************************************************************************)
SeedNext ==
    \/ SeedRun(1)
    \/ SeedRunAgain(1)
    \/ Return(1)

SeedSpec == Init /\ [][SeedNext]_vars

(***************************************************************************)
(* ReseedSpec: the loader runs on a database that other statements wrote   *)
(* to after an earlier run.                                                *)
(***************************************************************************)
ReseedNext ==
    \/ SeedRun(1)
    \/ InsertUser(1, SchemaUserRows)
    \/ InsertPost(1, SchemaIds, SchemaRefIds)
    \/ InsertComment(1, SchemaIds, SchemaRefIds, {NoId})
    \/ InsertPostTag(1, SchemaRefIds, SchemaRefIds)
    \/ InsertLike(1, SchemaIds, {"post"}, SchemaRefIds)
    \/ Return(1)

ReseedSpec == Init /\ [][ReseedNext]_vars

(***************************************************************************)
(* Migrations.  migrate.latest() runs the up of every pending migration in *)
(* file order; migrate.rollback(undefined, true) runs the down of every    *)
(* applied migration in reverse order; resetDatabase does the one, then    *)
(* the other.  One up or down is one step.                                 *)
(***************************************************************************)
TableExistsError == "table already exists"

\* up: knex.schema.createTable(t)
createTable(t) ==
    /\ t \notin seq.tables
    /\ seq' = [seq EXCEPT !.tables = @ \cup {t}, !.migrated = @ + 1]
    /\ UNCHANGED <<users, categories, tags, posts, comments, post_tags, likes>>

\* variant of down that leaves the table in place
dropTableIfExists_keeps(t) ==
    /\ seq' = [seq EXCEPT !.migrated = @ - 1]
    /\ UNCHANGED <<users, categories, tags, posts, comments, post_tags, likes>>
\* down: knex.schema.dropTableIfExists(t), the rows and the sequence go with the table
dropTableIfExists(t) ==
    /\ users' = IF t = "users" THEN {} ELSE users
    /\ categories' = IF t = "categories" THEN {} ELSE categories
    /\ tags' = IF t = "tags" THEN {} ELSE tags
    /\ posts' = IF t = "posts" THEN {} ELSE posts
    /\ comments' = IF t = "comments" THEN {} ELSE comments
    /\ post_tags' = IF t = "post_tags" THEN {} ELSE post_tags
    /\ likes' = IF t = "likes" THEN {} ELSE likes
    /\ seq' = [f \in DOMAIN seq |->
                CASE f = "tables" -> seq.tables \ {t}
                  [] f = "migrated" -> seq.migrated - 1
                  [] f = t -> 0
                  [] OTHER -> seq[f]]

\* where a call goes once its migrate step is through
MigrateThen(p, c, pc) ==
    IF pc = "done" THEN Finish(p, c, ReturnVal("void")) ELSE Goto(p, c, pc)

\* migrate.latest(): the next pending up; the last one ends it
migrate_latest(p, c) ==
    IF seq.migrated = Len(Migrations)
    THEN /\ UNCHANGED db
         /\ Finish(p, c, ReturnVal("void"))
    ELSE IF Migrations[seq.migrated + 1] \in seq.tables
    THEN /\ UNCHANGED db
         /\ Finish(p, c, Throw(TableExistsError))
    ELSE /\ createTable(Migrations[seq.migrated + 1])
         /\ MigrateThen(p, c, IF seq.migrated + 1 = Len(Migrations) THEN "done" ELSE "latest")

\* migrate.rollback(undefined, true): the last applied down; the first migration's ends it
migrate_rollback(p, c, then) ==
    IF seq.migrated = 0
    THEN /\ UNCHANGED db
         /\ MigrateThen(p, c, then)
    ELSE /\ dropTableIfExists(Migrations[seq.migrated])
         /\ MigrateThen(p, c, IF seq.migrated = 1 THEN then ELSE "rollback")

\* a migrate call, with the row counts it started from
NewMigrateCall(op) ==
    [NewCall(op, NoId, NoInput) EXCEPT !.row = {[before |-> RowCounts]}]

MigrateLatest(p) ==
    \/ /\ Idle(p)
       /\ migrate_latest(p, NewMigrateCall("migrate latest"))
    \/ /\ At(p, "migrate latest", "latest")
       /\ migrate_latest(p, call[p])

MigrateRollback(p) ==
    \/ /\ Idle(p)
       /\ migrate_rollback(p, NewMigrateCall("migrate rollback"), "done")
    \/ /\ At(p, "migrate rollback", "rollback")
       /\ migrate_rollback(p, call[p], "done")

ResetDatabase(p) ==
    \/ /\ Idle(p)
       /\ migrate_rollback(p, NewMigrateCall("resetDatabase"), "latest")
    \/ /\ At(p, "resetDatabase", "rollback")
       /\ migrate_rollback(p, call[p], "latest")
    \/ /\ At(p, "resetDatabase", "latest")
       /\ migrate_latest(p, call[p])

\* every migration is applied: the tests and the seeds write only then
Migrated == seq.migrated = Len(Migrations) /\ seq.tables = AllTables

(***************************************************************************)
(* MigrationSpec: from the empty database, migrations are applied and      *)
(* rolled back; while all are applied, rows are inserted.                  *)
(***************************************************************************)
MigrationNext ==
    \/ MigrateLatest(1)
    \/ MigrateRollback(1)
    \/ ResetDatabase(1)
    \/ Migrated /\ InsertUser(1, SchemaUserRows)
    \/ Migrated /\ InsertCategory(1, {"free"})
    \/ Migrated /\ InsertTag(1, {"knex"})
    \/ Migrated /\ InsertPost(1, {1}, {1})
    \/ Migrated /\ InsertComment(1, {1}, {1}, {NoId, 1})
    \/ Migrated /\ InsertPostTag(1, {1}, {1})
    \/ Migrated /\ InsertLike(1, {1}, {"post"}, {1})
    \/ Return(1)

MigrationSpec == EmptyInit /\ [][MigrationNext]_vars

(***************************************************************************)
(* SoftDeleteSpec: users with posts, comments and likes are soft-deleted   *)
(* through the repository and read back.                                   *)
(***************************************************************************)
SoftDeleteInput == [NoInput EXCEPT !.status = "deleted"]

SoftDeleteNext ==
    \/ InsertUser(1, SchemaUserRows)
    \/ InsertCategory(1, {"free"})
    \/ InsertPost(1, {1, 2}, {1})
    \/ InsertComment(1, {1, 2}, {1}, {NoId})
    \/ InsertLike(1, {1, 2}, {"post"}, {1})
    \/ RepoSoftDelete(1, {1, 2, 3})
    \/ Find(1, {1, 3})
    \/ Return(1)

SoftDeleteSpec == Init /\ [][SoftDeleteNext]_vars

(***************************************************************************)
(* UserRepository.findAll / count.  A filter field takes part in the       *)
(* query when it is truthy: neither undefined nor the empty string.        *)
(***************************************************************************)
FilterFields == {"role", "status", "email", "nickname"}

Truthy(v) == v # UNDEF /\ v # ""

\* the where clauses findAll and count put on the query
Filtered(filter) ==
    {u \in users : \A f \in FilterFields : Truthy(filter[f]) => u[f] = filter[f]}

findAll(p, filter) ==
    /\ UNCHANGED db
    /\ Sql(p, "findAll", NoId, {filter},
           [kind |-> "return", val |-> "users", rows |-> Filtered(filter)])

\* getCount: Number(result?.count || 0)
count(p, filter) ==
    /\ UNCHANGED db
    /\ Sql(p, "count", NoId, {filter}, ReturnVal(ToString(Cardinality(Filtered(filter)))))

FindAll(p, Filters) == Idle(p) /\ \E filter \in Filters : findAll(p, filter)

CountUsers(p, Filters) == Idle(p) /\ \E filter \in Filters : count(p, filter)

(***************************************************************************)
(* FilterSpec: users are created through the repository and listed and     *)
(* counted under every filter.                                             *)
(***************************************************************************)
FilterCreateArgs ==
    {[NoInput EXCEPT !.email = "a@x.com", !.password = hashPassword(Plain("pw1"), 1),
                     !.nickname = "nick-a", !.role = r, !.status = s] :
        r \in {UNDEF, "admin"}, s \in {UNDEF, "suspended"}}
    \cup
    {[NoInput EXCEPT !.email = "b@x.com", !.password = hashPassword(Plain("pw1"), 1),
                     !.nickname = "nick-b", !.role = r] : r \in {UNDEF, "admin"}}

UserFilters ==
    [role : {UNDEF, "user", "admin"}, status : {UNDEF, "active", "suspended"},
     email : {UNDEF, "", "a@x.com"}, nickname : {UNDEF, "", "nick-b"}]

FilterNext ==
    \/ RepoCreate(1, FilterCreateArgs)
    \/ FindAll(1, UserFilters)
    \/ CountUsers(1, UserFilters)
    \/ Return(1)

FilterSpec == Init /\ [][FilterNext]_vars

(***************************************************************************)
(* Requests to a route guarded by the authenticate hook.  The request      *)
(* record holds the token sent, the number of responses written, whether   *)
(* the route handler ran, and the status and error code of the response.   *)
(* Fastify runs the onRequest hooks first and goes on to the handler only  *)
(* when no reply was sent by then; a send on a reply already sent is       *)
(* dropped.                                                                *)
(***************************************************************************)
Tokens == {"none", "malformed", "expired", "wrong-secret", "valid"}

NewRequest(token) ==
    [token |-> token, sent |-> 0, ran |-> FALSE, status |-> "", code |-> ""]

RequestOf(c) == CHOOSE r \in c.row : TRUE

\* request.jwtVerify() resolves for a well-formed, signed, unexpired token only
jwtVerify(token) == token = "valid"

\* reply.code(status).send(body)
send(r, status, code) ==
    IF r.sent > 0 THEN r
    ELSE [r EXCEPT !.sent = 1, !.status = status, !.code = code]

\* variant of the hook that swallows the verification error
authenticate_silent(r) == r
\* the authenticate decorator
authenticate(r) ==
    IF jwtVerify(r.token) THEN r ELSE send(r, "401", "UNAUTHORIZED")

\* GET /api/me: the onRequest hook, ...
route_onRequest(p, c) ==
    /\ UNCHANGED db
    /\ call' = [call EXCEPT ![p] = [c EXCEPT !.pc = "next", !.row = {authenticate(RequestOf(c))}]]

\* ... the hook runner after the hook resolved, ...
route_next(p, c) ==
    /\ UNCHANGED db
    /\ IF RequestOf(c).sent > 0
       THEN Finish(p, c, ReturnVal(RequestOf(c).status))
       ELSE Goto(p, c, "handler")

\* ... and the handler, whose return value is sent with status 200
route_handler(p, c) ==
    LET r == send([RequestOf(c) EXCEPT !.ran = TRUE], "200", "")
    IN  /\ UNCHANGED db
        /\ call' = [call EXCEPT ![p] =
                      [c EXCEPT !.pc = "done", !.row = {r}, !.res = ReturnVal(r.status)]]

GetMe(p) ==
    \/ /\ Idle(p)
       /\ \E token \in Tokens :
              route_onRequest(p, [NewCall("GET /api/me", NoId, NoInput)
                                    EXCEPT !.row = {NewRequest(token)}])
    \/ /\ At(p, "GET /api/me", "next")
       /\ route_next(p, call[p])
    \/ /\ At(p, "GET /api/me", "handler")
       /\ route_handler(p, call[p])

(***************************************************************************)
(* AuthSpec: the callers send requests to GET /api/me side by side.        *)
(***************************************************************************)
AuthNext == \E p \in Procs : GetMe(p) \/ Return(p)

AuthSpec == Init /\ [][AuthNext]_vars

(***************************************************************************)
(* The global error handler.  An error is an Error object: its name, its   *)
(* code and statusCode when it has them (UNDEF and 0 when it has not), and *)
(* its stack.  NODE_ENV is the environment the process runs in.            *)
(***************************************************************************)
\* variant of the table without the entry for NotFoundError
ERROR_MAPPINGS_noNotFound ==
    [k \in {"ValidationError", "FST_ERR_VALIDATION", "UnauthorizedError",
            "ForbiddenError", "ConflictError", "DatabaseError"} |->
        CASE k \in {"ValidationError", "FST_ERR_VALIDATION"} ->
                [statusCode |-> 400, code |-> "VALIDATION_ERROR"]
          [] k = "UnauthorizedError" -> [statusCode |-> 401, code |-> "UNAUTHORIZED"]
          [] k = "ForbiddenError" -> [statusCode |-> 403, code |-> "FORBIDDEN"]
          [] k = "ConflictError" -> [statusCode |-> 409, code |-> "CONFLICT"]
          [] k = "DatabaseError" -> [statusCode |-> 500, code |-> "DATABASE_ERROR"]]
ERROR_MAPPINGS ==
    [k \in {"ValidationError", "FST_ERR_VALIDATION", "UnauthorizedError",
            "ForbiddenError", "NotFoundError", "ConflictError", "DatabaseError"} |->
        CASE k \in {"ValidationError", "FST_ERR_VALIDATION"} ->
                [statusCode |-> 400, code |-> "VALIDATION_ERROR"]
          [] k = "UnauthorizedError" -> [statusCode |-> 401, code |-> "UNAUTHORIZED"]
          [] k = "ForbiddenError" -> [statusCode |-> 403, code |-> "FORBIDDEN"]
          [] k = "NotFoundError" -> [statusCode |-> 404, code |-> "NOT_FOUND"]
          [] k = "ConflictError" -> [statusCode |-> 409, code |-> "CONFLICT"]
          [] k = "DatabaseError" -> [statusCode |-> 500, code |-> "DATABASE_ERROR"]]

\* ERROR_MAPPINGS[key]: the entry, if there is one
Mapped(key) == IF key \in DOMAIN ERROR_MAPPINGS THEN {ERROR_MAPPINGS[key]} ELSE {}

\* variant that adds the stack in every environment
errorHandler_stackAlways(error, env) ==
    LET mapping == IF Mapped(error.name) # {} THEN Mapped(error.name) ELSE Mapped(error.code)
        statusCode == IF error.statusCode # 0 THEN error.statusCode
                      ELSE IF mapping # {} THEN (CHOOSE m \in mapping : TRUE).statusCode
                      ELSE 500
        errorCode == IF mapping # {} THEN (CHOOSE m \in mapping : TRUE).code
                     ELSE "INTERNAL_SERVER_ERROR"
    IN  [status |-> statusCode,
         body |-> [message |-> error.message, code |-> errorCode, statusCode |-> statusCode,
                   stack |-> IF statusCode >= 500 THEN error.stack ELSE UNDEF]]
\* setErrorHandler: the reply to an error
errorHandler(error, env) ==
    LET mapping == IF Mapped(error.name) # {} THEN Mapped(error.name) ELSE Mapped(error.code)
        statusCode == IF error.statusCode # 0 THEN error.statusCode
                      ELSE IF mapping # {} THEN (CHOOSE m \in mapping : TRUE).statusCode
                      ELSE 500
        errorCode == IF mapping # {} THEN (CHOOSE m \in mapping : TRUE).code
                     ELSE "INTERNAL_SERVER_ERROR"
    IN  [status |-> statusCode,
         body |-> [message |-> error.message, code |-> errorCode, statusCode |-> statusCode,
                   stack |-> IF env = "development" /\ statusCode >= 500
                             THEN error.stack ELSE UNDEF]]

HandleError(p, Errors, Envs) ==
    /\ Idle(p)
    /\ UNCHANGED db
    /\ \E error \in Errors, env \in Envs :
          Sql(p, "errorHandler", NoId,
              {[error |-> error, env |-> env, reply |-> errorHandler(error, env)]},
              ReturnVal("sent"))

(***************************************************************************)
(* ErrorSpec: errors of every kind reach the handler, in every             *)
(* environment.                                                            *)
(***************************************************************************)
ThrownErrors ==
    [name : {"Error", "NotFoundError", "ConflictError", "ValidationError", "DatabaseError"},
     code : {UNDEF, "FST_ERR_VALIDATION", "ER_DUP_ENTRY"},
     statusCode : {0, 400, 403, 404, 500, 503},
     message : {"boom"},
     stack : {"Error: boom at ..."}]

NodeEnvs == {"development", "test", "production", UNDEF}

ErrorNext ==
    \/ HandleError(1, ThrownErrors, NodeEnvs)
    \/ Return(1)

ErrorSpec == Init /\ [][ErrorNext]_vars

(***************************************************************************)
(* The knex configuration and its connection pool.  An entry of the        *)
(* knexfile names a client and, optionally, a pool size; knex fills in the *)
(* pool size of the client when the entry names none.  A statement runs on *)
(* a connection of the pool that no other statement holds; with sqlite3    *)
(* and ':memory:' every connection is a database of its own.              *)
(***************************************************************************)
knexfile ==
    [development |-> [client |-> "mysql2", pool |-> {[min |-> 2, max |-> 10]}],
     test |-> [client |-> "sqlite3", pool |-> {}],
     production |-> [client |-> "mysql2", pool |-> {[min |-> 2, max |-> 20]}]]

Environments == DOMAIN knexfile

\* variant in which sqlite3 takes the general pool size
poolDefaults_general(client) == [min |-> 2, max |-> 10]
\* knex: the pool size of a client, sqlite3 has one connection
poolDefaults(client) ==
    IF client = "sqlite3" THEN [min |-> 1, max |-> 1] ELSE [min |-> 2, max |-> 10]

\* the pool settings knex runs an entry with
PoolOf(env) ==
    IF knexfile[env].pool # {}
    THEN CHOOSE s \in knexfile[env].pool : TRUE
    ELSE poolDefaults(knexfile[env].client)

\* the connections of env's pool that statements in flight hold
Held(env) ==
    LET inFlight == {q \in Procs : call[q].op = "query" /\ call[q].pc = "run"}
    IN  {r.conn : r \in {r \in UNION {call[q].row : q \in inFlight} : r.env = env}}

\* acquire a connection; the statement waits while none is free
query_acquire(p, env) ==
    \E conn \in (1..PoolOf(env).max) \ Held(env) :
        /\ UNCHANGED db
        /\ call' = [call EXCEPT ![p] =
                      [NewCall("query", NoId, NoInput)
                          EXCEPT !.pc = "run", !.row = {[env |-> env, conn |-> conn]}]]

\* run the statement and release the connection
query_run(p, c) ==
    /\ UNCHANGED db
    /\ Finish(p, c, ReturnVal("ok"))

Query(p, Envs) ==
    \/ /\ Idle(p)
       /\ \E env \in Envs : query_acquire(p, env)
    \/ /\ At(p, "query", "run")
       /\ query_run(p, call[p])

(***************************************************************************)
(* PoolSpec: the callers run statements side by side, each through the     *)
(* pool of one environment.                                                *)
(***************************************************************************)
PoolNext == \E p \in Procs : Query(p, Environments) \/ Return(p)

PoolSpec == Init /\ [][PoolNext]_vars

(***************************************************************************)
(* Transactions.  Every repository method runs its statements on           *)
(* `trx || this.knex`; the service hands its trx argument to each          *)
(* repository call.  While caller 2 holds an open transaction, caller 1    *)
(* is given its handle; the tables then show the transaction's own view    *)
(* and the transaction keeps the rows as they were when it began.          *)
(***************************************************************************)
\* const db = trx || this.knex
Connection(trx) == IF trx # UNDEF THEN trx ELSE "knex"

\* the first statement of each operation
FirstStatement(op) ==
    CASE op = "createUser" -> "existsByEmail"
      [] op \in {"updateUser", "updatePassword"} -> "findById"
      [] op = "create" -> "insert"
      [] OTHER -> op

\* the trx argument that reaches the repository method of statement stmt
PassedTrx_readBackShared(op, stmt, trx) ==
    IF stmt \in {"create_findById", "update_findById"} THEN UNDEF ELSE trx

PassedTrx(op, stmt, trx) ==
    CASE op = "createUser" -> trx       \* existsByEmail, existsByNickname, create
      [] op = "updateUser" -> trx       \* findById, existsByEmail, existsByNickname, update
      [] op = "updatePassword" -> trx   \* findById, update
      [] stmt \in {"create_findById", "update_findById"} -> trx  \* this.findById(id, trx)
      [] OTHER -> trx

StatementConnection(op, stmt, trx) == Connection(PassedTrx(op, stmt, trx))

TrxOwner == 2
TrxOpen == call[TrxOwner].op = "transaction" /\ call[TrxOwner].pc = "open"
TrxArg == IF TrxOpen THEN "trx" ELSE UNDEF

Snapshot ==
    [users |-> users, categories |-> categories, tags |-> tags, posts |-> posts,
     comments |-> comments, post_tags |-> post_tags, likes |-> likes, seq |-> seq]

\* knex.transaction(async (trx) => ...): the callback starts with a fresh handle
transaction_begin(p) ==
    /\ \A q \in DOMAIN call : Idle(q)
    /\ call' = [call EXCEPT ![p] =
                   [NewCall("transaction", NoId, NoInput) EXCEPT !.pc = "open",
                                                                !.row = {Snapshot}]]
    /\ UNCHANGED db

\* the callback resolved: what the transaction wrote stays
transaction_commit(p, c) ==
    /\ \A q \in DOMAIN call \ {p} : call[q].pc = "done"
    /\ Finish(p, [c EXCEPT !.row = {}], ReturnVal("commit"))
    /\ UNCHANGED db

\* the callback rejected or was abandoned: the rows are those of the begin;
\* whether the id counters go back too depends on the engine
transaction_rollback(p, c) ==
    \E s \in c.row :
        /\ users' = s.users
        /\ categories' = s.categories
        /\ tags' = s.tags
        /\ posts' = s.posts
        /\ comments' = s.comments
        /\ post_tags' = s.post_tags
        /\ likes' = s.likes
        /\ seq' \in {s.seq, seq}
        /\ call' = [q \in DOMAIN call |->
                       IF q = p THEN [c EXCEPT !.pc = "done", !.row = {},
                                               !.res = ReturnVal("rollback")]
                       ELSE IF call[q].pc = "done" THEN call[q]
                       ELSE NoCall]

Transaction(p) ==
    \/ transaction_begin(p)
    \/ /\ At(p, "transaction", "open")
       /\ transaction_commit(p, call[p])
    \/ /\ At(p, "transaction", "open")
       /\ transaction_rollback(p, call[p])

TrxCreateArgs ==
    {[NoInput EXCEPT !.email = e, !.password = Plain("pw1"), !.nickname = n] :
        e \in Emails, n \in {"nick-a"}}

TrxUpdateArgs ==
    {[NoInput EXCEPT !.email = "b@x.com"], [NoInput EXCEPT !.nickname = "nick-b"],
     [NoInput EXCEPT !.password = Plain("pw2")]}

TrxNext ==
    \/ Transaction(TrxOwner)
    \/ CreateUser(1, TrxCreateArgs)
    \/ UpdateUser(1, {1, 2}, TrxUpdateArgs)
    \/ UpdatePassword(1, {1, 2}, {[NoInput EXCEPT !.password = Plain("pw2")]})
    \/ RepoUpdate(1, {1}, {[NoInput EXCEPT !.nickname = "nick-b"]})
    \/ RepoDelete(1, {1, 2})
    \/ ~TrxOpen /\ InsertCategory(1, {"free"})
    \/ ~TrxOpen /\ InsertPost(1, {1}, {1})
    \/ Return(1)
    \/ Return(TrxOwner)

TrxSpec == Init /\ [][TrxNext]_vars

(***************************************************************************)
(* The timestamp columns of users.  table.timestamps(true, true) declares  *)
(* created_at and updated_at NOT NULL DEFAULT CURRENT_TIMESTAMP; the       *)
(* default applies to an insert that names neither column.  seq.now is     *)
(* the server's clock.                                                     *)
(***************************************************************************)
MaxNow == 2

\* the column defaults taken by an insert at time now
Timestamps(now) == [created_at |-> now, updated_at |-> now]

\* create(): the insert statement, with the defaulted columns of the row
create_insert_timestamps(p, c, data) ==
    /\ seq.users < MaxId
    /\ LET row == NewUserRow(seq.users + 1, data) @@ Timestamps(seq.now)
       IN  IF UsersUniqueOk(row, users)
           THEN /\ users' = users \cup {row}
                /\ seq' = [seq EXCEPT !.users = row.id]
                /\ UNCHANGED others
                /\ Goto(p, [c EXCEPT !.newId = row.id], "create_findById")
           ELSE /\ UNCHANGED db
                /\ Finish(p, c, Throw(UniqueError))

RepoCreateTimestamps(p, Args) ==
    \/ /\ Idle(p)
       /\ \E data \in Args : create_insert_timestamps(p, NewCall("create", NoId, data), data)
    \/ /\ At(p, "create", "create_findById")
       /\ create_findById(p, call[p])

\* time passes between two statements
Tick ==
    /\ seq.now < MaxNow
    /\ seq' = [seq EXCEPT !.now = @ + 1]
    /\ UNCHANGED <<users, others, call>>

TimeCreateArgs ==
    {[NoInput EXCEPT !.email = "a@x.com", !.password = hashPassword(Plain("pw1"), 1),
                     !.nickname = "nick-a"]}

TimeUpdateArgs ==
    {[NoInput EXCEPT !.email = "b@x.com"], [NoInput EXCEPT !.nickname = "nick-b"],
     [NoInput EXCEPT !.password = Plain("pw2")]}

TimeInit ==
    /\ users = {}
    /\ categories = {}
    /\ tags = {}
    /\ posts = {}
    /\ comments = {}
    /\ post_tags = {}
    /\ likes = {}
    /\ seq = [users |-> 0, categories |-> 0, tags |-> 0, posts |-> 0,
              comments |-> 0, likes |-> 0,
              tables |-> AllTables, migrated |-> Len(Migrations), now |-> 0]
    /\ call = [p \in Procs |-> NoCall]

TimeNext ==
    \/ Tick
    \/ RepoCreateTimestamps(1, TimeCreateArgs)
    \/ RepoUpdate(1, {1, 2}, {[NoInput EXCEPT !.nickname = "nick-b"]})
    \/ RepoSoftDelete(1, {1})
    \/ UpdateUser(1, {1}, TimeUpdateArgs)
    \/ UpdatePassword(1, {1}, {[NoInput EXCEPT !.password = Plain("pw2")]})
    \/ Return(1)

TimeSpec == TimeInit /\ [][TimeNext]_vars

(***************************************************************************)
(* UserService called with inputs that carry a role and a status, next to  *)
(* rows of every role and status put in place through the repository.      *)
(***************************************************************************)
PrivilegedCreateArgs ==
    {[NoInput EXCEPT !.email = "a@x.com", !.password = hashPassword(Plain("pw1"), 1),
                     !.nickname = "nick-a", !.role = r, !.status = s] :
        r \in {UNDEF, "admin"}, s \in {UNDEF, "suspended"}}

GrantingCreateArgs ==
    {[NoInput EXCEPT !.email = "b@x.com", !.password = Plain("pw1"), !.nickname = "nick-b",
                     !.role = r, !.status = s] :
        r \in {UNDEF, "admin"}, s \in {UNDEF, "suspended"}}

GrantingUpdateArgs ==
    {[NoInput EXCEPT !.email = e, !.nickname = n, !.password = pw, !.role = r, !.status = s] :
        e \in {UNDEF, "b@x.com"}, n \in {UNDEF, "nick-b"},
        pw \in {UndefPassword, Plain("pw2")},
        r \in {UNDEF, "user", "admin"}, s \in {UNDEF, "active", "deleted"}}

GrantingPasswordArgs ==
    {[NoInput EXCEPT !.password = Plain("pw2"), !.role = r, !.status = s] :
        r \in {UNDEF, "admin"}, s \in {UNDEF, "active"}}

PrivilegeNext ==
    \/ RepoCreate(1, PrivilegedCreateArgs)
    \/ CreateUser(1, GrantingCreateArgs)
    \/ UpdateUser(1, {1, 2}, GrantingUpdateArgs)
    \/ UpdatePassword(1, {1, 2}, GrantingPasswordArgs)
    \/ Return(1)

PrivilegeSpec == Init /\ [][PrivilegeNext]_vars

(***************************************************************************)
(* updatePassword of caller 1 next to a second caller that deletes or      *)
(* updates the same user between its statements.                           *)
(***************************************************************************)
PasswordRaceRows ==
    {[NoInput EXCEPT !.email = e, !.password = hashPassword(Plain("pw1"), 1),
                     !.nickname = "nick-a"] : e \in Emails}

PasswordRaceNext ==
    \/ UpdatePassword(1, {1}, {[NoInput EXCEPT !.password = Plain("pw2")]})
    \/ Return(1)
    \/ RepoCreate(2, PasswordRaceRows)
    \/ RepoDelete(2, {1})
    \/ RepoUpdate(2, {1}, {[NoInput EXCEPT !.nickname = "nick-b"]})
    \/ Return(2)

PasswordRaceSpec == Init /\ [][PasswordRaceNext]_vars

(***************************************************************************)
(* Steps of a call, as seen from outside: caller p starts a call of method *)
(* op in this step (its first statement runs), or p's call of op ends in   *)
(* this step.                                                              *)
(***************************************************************************)
Starts(p, op) == call[p] = NoCall /\ call'[p].op = op
Ends(p, op) == call'[p] # call[p] /\ call'[p].op = op /\ call'[p].pc = "done"
Moves(p, op) == call'[p] # call[p] /\ call'[p].op = op

EmailHeld(email) == \E u \in users : u.email = email
NicknameHeld(nickname) == \E u \in users : u.nickname = nickname

(***************************************************************************)
(* C1.  createUser fails fast on duplicates: when it starts with a row     *)
(* holding input.email it ends at once with 'Email already exists',        *)
(* whatever the nickname; its next statement runs only with the email free *)
(* and, with a row holding input.nickname, ends the call with 'Nickname    *)
(* already exists'; neither rejection changes any table.                   *)
(***************************************************************************)
C1_CreateUserFailFast ==
    [][\A p \in Procs :
        LET c == call'[p]
        IN  /\ (Starts(p, "createUser") /\ EmailHeld(c.input.email)) =>
                  /\ c.pc = "done"
                  /\ c.res = Throw("Email already exists")
                  /\ UNCHANGED db
            /\ (At(p, "createUser", "existsByNickname") /\ call'[p] # call[p]) =>
                  /\ ~EmailHeld(c.input.email)
                  /\ NicknameHeld(c.input.nickname) =>
                        /\ c.pc = "done"
                        /\ c.res = Throw("Nickname already exists")
                        /\ UNCHANGED db
            /\ (Ends(p, "createUser") /\ c.res.kind = "throw") => UNCHANGED db
    ]_vars

\* createUser was rejected for its nickname, its email being free
C1_Witness ==
    \E p \in Procs :
        /\ call[p].op = "createUser"
        /\ call[p].res = Throw("Nickname already exists")
        /\ ~EmailHeld(call[p].input.email)
        /\ NicknameHeld(call[p].input.nickname)

(***************************************************************************)
(* C4.  A row written by createUser, by updateUser with a password or by   *)
(* updatePassword holds in its password column a bcrypt hash of the        *)
(* plaintext given, never the plaintext; comparePassword accepts for that  *)
(* column exactly the passwords whose hash it is.  updateUser without a    *)
(* password leaves the column as it was.                                   *)
(***************************************************************************)
IsHashOf(stored, plain) == \E salt \in Salts : stored = hashPassword(plain, salt)

StoresHashOf(rows, plain) ==
    \A u \in rows :
        /\ IsHashOf(u.password, plain)
        /\ u.password # plain
        /\ u.password.kind # "plain"
        /\ \A q \in PlainPasswords :
               comparePassword(Plain(q), u.password) <=> IsHashOf(u.password, Plain(q))
        /\ \A q \in PlainPasswords :
               comparePassword(Plain(q), u.password) <=> Plain(q) = plain

C4_PasswordsHashed ==
    [][\A p \in Procs :
        LET c == call'[p]
            written == users' \ users
        IN  (written # {} /\ Moves(p, c.op)) =>
              /\ c.op = "createUser" => StoresHashOf(written, c.input.password)
              /\ c.op = "updatePassword" =>
                    /\ Ids(written) = {c.id}
                    /\ StoresHashOf(written, c.input.password)
              /\ (c.op = "updateUser" /\ c.input.password # UndefPassword) =>
                    /\ Ids(written) = {c.id}
                    /\ StoresHashOf(written, c.input.password)
              /\ (c.op = "updateUser" /\ c.input.password = UndefPassword) =>
                    \A v \in written : \E u \in users : u.id = v.id /\ u.password = v.password
    ]_vars

\* updatePassword returned and the row accepts the new password only
C4_Witness ==
    \E p \in Procs, u \in users :
        /\ call[p].op = "updatePassword"
        /\ call[p].res = ReturnVal("void")
        /\ u.id = call[p].id
        /\ comparePassword(call[p].input.password, u.password)
        /\ \E q \in PlainPasswords : ~comparePassword(Plain(q), u.password)


(***************************************************************************)
(* C5.  updateUser on an existing user.  A value conflicts when it is      *)
(* supplied, differs from the user's own and is held by another user.      *)
(***************************************************************************)
EmailConflict(id, input) ==
    /\ input.email # UNDEF
    /\ \E u \in users : u.id = id /\ u.email # input.email
    /\ \E v \in users : v.id # id /\ v.email = input.email

NicknameConflict(id, input) ==
    /\ input.nickname # UNDEF
    /\ \E u \in users : u.id = id /\ u.nickname # input.nickname
    /\ \E v \in users : v.id # id /\ v.nickname = input.nickname

\* C5 as stated: updateUser ends with 'Email already exists' exactly when
\* the email conflicts and with 'Nickname already exists' exactly when the
\* nickname conflicts, a rejection changing no row.
C5_AsStated ==
    [][\A p \in Procs :
        LET c == call'[p]
        IN  (Ends(p, "updateUser") /\ findById(c.id) # {}) =>
              /\ c.res = Throw("Email already exists") <=> EmailConflict(c.id, c.input)
              /\ c.res = Throw("Nickname already exists") <=> NicknameConflict(c.id, c.input)
              /\ c.res.val \in {"Email already exists", "Nickname already exists"} =>
                    UNCHANGED db
    ]_vars

\* C5, amended: the email is checked first, so updateUser ends with
\* 'Nickname already exists' exactly when the nickname conflicts and the
\* email does not; it ends with 'Email already exists' exactly when the
\* email conflicts; a rejection changes no row; the update statement is
\* reached only without a conflict, so the user's own email or nickname
\* is accepted.
C5_UpdateUserDuplicates ==
    /\ [](\A p \in Procs :
            At(p, "updateUser", "update") =>
                /\ ~EmailConflict(call[p].id, call[p].input)
                /\ ~NicknameConflict(call[p].id, call[p].input))
    /\ [][\A p \in Procs :
            LET c == call'[p]
            IN  (Ends(p, "updateUser") /\ findById(c.id) # {}) =>
                  /\ c.res = Throw("Email already exists") <=> EmailConflict(c.id, c.input)
                  /\ c.res = Throw("Nickname already exists") <=>
                        (NicknameConflict(c.id, c.input) /\ ~EmailConflict(c.id, c.input))
                  /\ c.res.val \in {"Email already exists", "Nickname already exists"} =>
                        UNCHANGED db
       ]_vars

\* updateUser was given the user's own email and another user's nickname
\* and was rejected for the nickname
C5_Witness ==
    \E p \in Procs, u \in users :
        /\ call[p].op = "updateUser"
        /\ call[p].res = Throw("Nickname already exists")
        /\ u.id = call[p].id
        /\ u.email = call[p].input.email
        /\ NicknameConflict(call[p].id, call[p].input)

(***************************************************************************)
(* C6.  UserRepository.update(id, data) changes only the supplied columns  *)
(* of row id, leaves the other columns and the other rows as they were,    *)
(* and returns null, changing nothing, when no row has that id.            *)
(***************************************************************************)
C6_UpdateOnlySupplied ==
    [][\A p \in Procs :
        LET c == call'[p]
        IN  Starts(p, "update") =>
              /\ findById(c.id) = {} =>
                    /\ c.pc = "done"
                    /\ c.res = [kind |-> "return", val |-> "null", rows |-> {}]
                    /\ UNCHANGED db
              /\ {u \in users : u.id # c.id} = {v \in users' : v.id # c.id}
              /\ \A u \in users, v \in users' :
                    (u.id = c.id /\ v.id = c.id) =>
                        \A f \in DOMAIN u : f \notin Supplied(c.input) => v[f] = u[f]
              /\ Ids(users') = Ids(users)
              /\ UNCHANGED <<others, seq>>
    ]_vars

(***************************************************************************)
(* C7.  With no row of the id, getUserProfile, updateUser and              *)
(* updatePassword throw 'User not found' and change nothing; the lookups   *)
(* (getUserById, getUserByEmail, findById, findByEmail, findByNickname)    *)
(* return null for a key no row has.                                       *)
(***************************************************************************)
ReturnsNull(c) ==
    c.pc = "done" /\ c.res = [kind |-> "return", val |-> "null", rows |-> {}]

C7_NotFound ==
    [][\A p \in Procs :
        LET c == call'[p]
            absent == \A u \in users : u.id # c.id
        IN  /\ \A op \in {"getUserProfile", "updateUser", "updatePassword"} :
                  (Starts(p, op) /\ absent) =>
                      /\ c.pc = "done"
                      /\ c.res = Throw("User not found")
                      /\ UNCHANGED db
            /\ \A op \in {"getUserById", "findById"} :
                  (Starts(p, op) /\ absent) => (ReturnsNull(c) /\ UNCHANGED db)
            /\ \A op \in {"getUserByEmail", "findByEmail"} :
                  (Starts(p, op) /\ ~EmailHeld(c.input.email)) =>
                      (ReturnsNull(c) /\ UNCHANGED db)
            /\ (Starts(p, "findByNickname") /\ ~NicknameHeld(c.input.nickname)) =>
                  (ReturnsNull(c) /\ UNCHANGED db)
    ]_vars

\* updatePassword named an id that no row of a non-empty table has
C7_Witness ==
    \E p \in Procs :
        /\ call[p].op = "updatePassword"
        /\ call[p].res = Throw("User not found")
        /\ users # {}
        /\ findById(call[p].id) = {}

(***************************************************************************)
(* C8.  UserRepository.delete(id) returns true exactly when a row of that  *)
(* id existed; afterwards no row has the id; on an absent id it returns    *)
(* false and changes nothing.                                              *)
(***************************************************************************)
C8_Delete ==
    [][\A p \in Procs :
        LET c == call'[p]
            existed == \E u \in users : u.id = c.id
        IN  Starts(p, "delete") =>
              /\ c.pc = "done"
              /\ c.res = ReturnVal(IF existed THEN "true" ELSE "false")
              /\ \A v \in users' : v.id # c.id
              /\ ~existed => UNCHANGED db
    ]_vars

\* delete removed one of two rows and returned true
C8_Witness ==
    \E p \in Procs :
        /\ call[p].op = "delete"
        /\ call[p].res = ReturnVal("true")
        /\ users # {}
        /\ findById(call[p].id) = {}


(***************************************************************************)
(* C2.  Whatever writes to users (createUser, updateUser, create, update,  *)
(* a plain insert, the seed), side by side, no two rows share an email     *)
(* and no two rows share a nickname; a write refused for uniqueness        *)
(* leaves the table as it was.                                             *)
(***************************************************************************)
C2_UsersUnique ==
    /\ [](\A u, v \in users :
            (u.email = v.email \/ u.nickname = v.nickname) => u = v)
    /\ [][\A p \in Procs :
            (call'[p] # call[p] /\ call'[p].res = Throw(UniqueError)) =>
                users' = users
       ]_vars

\* a second row was refused by the unique index on nickname alone
C2_Witness ==
    \E p \in Procs : \E r \in call[p].row :
        /\ call[p].op = "insert users"
        /\ call[p].res = Throw(UniqueError)
        /\ \E u \in users : u.nickname = r.nickname /\ u.email # r.email
        /\ \A u \in users : u.email # r.email

(***************************************************************************)
(* C3.  The callers run createUser and updateUser only, their statements   *)
(* interleaved in every order.  Of the calls that claim the same email or  *)
(* nickname the losers end with 'Email already exists' or 'Nickname        *)
(* already exists': no call ends with the storage's unique-constraint      *)
(* error.                                                                  *)
(***************************************************************************)
C3_LoserGetsDomainError ==
    \A p \in Procs :
        call[p].op \in {"createUser", "updateUser"} =>
            call[p].res # Throw(UniqueError)


(***************************************************************************)
(* C9.  Every foreign key is resolved in every state: a post's user and    *)
(* category, a comment's user, post and non-null parent, a post_tags       *)
(* row's post and tag, a like's user all exist; an insert that names a     *)
(* referenced id no row has ends with the foreign-key error and changes    *)
(* no table.                                                               *)
(***************************************************************************)
HasId(rows, id) == \E r \in rows : r.id = id

\* row r, about to be inserted by statement op, names a row that is absent
Dangling(op, r) ==
    CASE op = "insert posts" ->
            ~HasId(users, r.user_id) \/ ~HasId(categories, r.category_id)
      [] op = "insert comments" ->
            \/ ~HasId(users, r.user_id)
            \/ ~HasId(posts, r.post_id)
            \/ (r.parent_id # NoId /\ ~HasId(comments, r.parent_id))
      [] op = "insert post_tags" ->
            ~HasId(posts, r.post_id) \/ ~HasId(tags, r.tag_id)
      [] op = "insert likes" -> ~HasId(users, r.user_id)
      [] OTHER -> FALSE

C9_ForeignKeysResolved ==
    /\ [](/\ \A x \in posts :
                HasId(users, x.user_id) /\ HasId(categories, x.category_id)
          /\ \A c \in comments :
                /\ HasId(users, c.user_id)
                /\ HasId(posts, c.post_id)
                /\ c.parent_id # NoId => HasId(comments, c.parent_id)
          /\ \A pt \in post_tags :
                HasId(posts, pt.post_id) /\ HasId(tags, pt.tag_id)
          /\ \A l \in likes : HasId(users, l.user_id))
    /\ [][\A p \in Procs :
            \A r \in call'[p].row :
                (call[p] = NoCall /\ Dangling(call'[p].op, r)) =>
                    /\ call'[p].res = Throw(ForeignKeyError)
                    /\ UNCHANGED db
       ]_vars

\* a reply to a comment that no longer exists, by an existing user on an
\* existing post, was refused
C9_Witness ==
    \E p \in Procs : \E r \in call[p].row :
        /\ call[p].op = "insert comments"
        /\ call[p].res = Throw(ForeignKeyError)
        /\ HasId(users, r.user_id)
        /\ HasId(posts, r.post_id)
        /\ r.parent_id # NoId
        /\ ~HasId(comments, r.parent_id)

(***************************************************************************)
(* C10.  Deleting a post removes the post, exactly the comments whose      *)
(* post_id is that post and exactly the post_tags rows of that post;       *)
(* users, categories, tags, the other posts and the comments and           *)
(* post_tags rows of the other posts stay as they were.                    *)
(***************************************************************************)
C10_DeletePostExact ==
    [][\A p \in Procs :
        Starts(p, "delete posts") =>
            LET id == call'[p].id
            IN  /\ posts' = {x \in posts : x.id # id}
                /\ comments' = {c \in comments : c.post_id # id}
                /\ post_tags' = {pt \in post_tags : pt.post_id # id}
                /\ UNCHANGED <<users, categories, tags>>
    ]_vars

(***************************************************************************)
(* C11.  Every like row's (target_type, target_id) names an existing post  *)
(* or comment, in every state; in particular no like row of a deleted      *)
(* post remains after the delete.                                          *)
(***************************************************************************)
C11_LikeTargetsExist ==
    /\ [](\A l \in likes :
            /\ l.target_type = "post" => HasId(posts, l.target_id)
            /\ l.target_type = "comment" => HasId(comments, l.target_id))
    /\ [][\A p \in Procs :
            Starts(p, "delete posts") =>
                \A l \in likes' :
                    ~(l.target_type = "post" /\ l.target_id = call'[p].id)
       ]_vars

(***************************************************************************)
(* C12.  Deleting a user removes that user, the user's likes, the user's   *)
(* posts, every comment the user wrote or that stands on one of those      *)
(* posts, the replies to removed comments, and the post_tags rows of       *)
(* those posts; every other row of every table stays.                      *)
(***************************************************************************)
\* comment c goes when user id goes: by its author, by its post, or by
\* its parent
RECURSIVE GoesWithUser(_, _)
GoesWithUser(c, id) ==
    \/ c.user_id = id
    \/ \E x \in posts : x.id = c.post_id /\ x.user_id = id
    \/ /\ c.parent_id # NoId
       /\ \E q \in comments : q.id = c.parent_id /\ GoesWithUser(q, id)

C12_DeleteUserExact ==
    [][\A p \in Procs :
        Starts(p, "delete") =>
            LET id == call'[p].id
            IN  /\ users' = {u \in users : u.id # id}
                /\ likes' = {l \in likes : l.user_id # id}
                /\ posts' = {x \in posts : x.user_id # id}
                /\ comments' = {c \in comments : ~GoesWithUser(c, id)}
                /\ post_tags' = {pt \in post_tags :
                                    ~\E x \in posts : x.id = pt.post_id /\ x.user_id = id}
                /\ UNCHANGED <<categories, tags>>
    ]_vars

\* a user was deleted and took the only like along, while another user
\* and that user's post stayed
C12_Witness ==
    \E p \in Procs :
        /\ call[p].op = "delete"
        /\ call[p].res = ReturnVal("true")
        /\ seq.likes > 0
        /\ likes = {}
        /\ users # {}
        /\ posts # {}

(***************************************************************************)
(* C13.  Deleting a category that a post refers to is refused and changes  *)
(* no table; a category row disappears only while no post refers to it.    *)
(***************************************************************************)
C13_CategoryRestrict ==
    [][/\ \A p \in Procs :
            Starts(p, "delete categories") =>
                ((\E x \in posts : x.category_id = call'[p].id) =>
                    /\ call'[p].res = Throw(ForeignKeyError)
                    /\ UNCHANGED db)
       /\ \A c \in categories \ categories' :
            \A x \in posts : x.category_id # c.id
    ]_vars

\* the delete of a category was refused because of a post
C13_Witness ==
    \E p \in Procs :
        /\ call[p].op = "delete categories"
        /\ call[p].res = Throw(ForeignKeyError)
        /\ \E x \in posts : x.category_id = call[p].id

(***************************************************************************)
(* C14.  The likes table never holds two rows with the same (user_id,      *)
(* target_type, target_id); the insert of a second like with a tuple       *)
(* already present is refused and leaves likes as it was.                  *)
(***************************************************************************)
SameLike(a, b) ==
    /\ a.user_id = b.user_id
    /\ a.target_type = b.target_type
    /\ a.target_id = b.target_id

C14_LikesUnique ==
    /\ [](\A a, b \in likes : SameLike(a, b) => a = b)
    /\ [][\A p \in Procs :
            Starts(p, "insert likes") =>
                \A r \in call'[p].row :
                    (\E l \in likes : SameLike(l, r)) =>
                        /\ call'[p].res = Throw(UniqueError)
                        /\ likes' = likes
       ]_vars

\* a second like of the same user on the same post was refused
C14_Witness ==
    \E p \in Procs : \E r \in call[p].row :
        /\ call[p].op = "insert likes"
        /\ call[p].res = Throw(UniqueError)
        /\ \E l \in likes : SameLike(l, r)

(***************************************************************************)
(* C15.  Every comment with a parent is a reply to a top-level comment of  *)
(* the same post (replies are one level deep).                             *)
(***************************************************************************)
C15_RepliesOneLevelSamePost ==
    \A c \in comments :
        c.parent_id # NoId =>
            \E q \in comments :
                /\ q.id = c.parent_id
                /\ q.post_id = c.post_id
                /\ q.parent_id = NoId

(***************************************************************************)
(* C16.  likes_count of every post and of every comment is the number of   *)
(* like rows that target it, and is never negative.                        *)
(***************************************************************************)
LikesOf(type, id) ==
    {l \in likes : l.target_type = type /\ l.target_id = id}

C16_LikesCountMatchesRows ==
    /\ \A x \in posts :
        /\ x.likes_count >= 0
        /\ x.likes_count = Cardinality(LikesOf("post", x.id))
    /\ \A c \in comments :
        /\ c.likes_count >= 0
        /\ c.likes_count = Cardinality(LikesOf("comment", c.id))

(***************************************************************************)
(* C17.  On a freshly migrated database every run of the seed loader, the  *)
(* first and each later one, completes and leaves exactly the baseline:    *)
(* categories 1..4, tags 1..4 and one user, the administrator with id 1,   *)
(* role admin, status active and a hashed password.                        *)
(***************************************************************************)
Baseline ==
    /\ Cardinality(categories) = 4 /\ Ids(categories) = 1..4
    /\ Cardinality(tags) = 4 /\ Ids(tags) = 1..4
    /\ Cardinality(users) = 1
    /\ \A u \in users :
        /\ u.id = 1
        /\ u.email = "admin@community.local"
        /\ u.role = "admin"
        /\ u.status = "active"
        /\ \E salt \in Salts : u.password = hashPassword(Plain("admin123!"), salt)

C17_SeedIdempotent ==
    \A p \in Procs :
        call[p].op = "seed run" =>
            /\ call[p].res.kind # "throw"
            /\ call[p].pc = "done" => Baseline

\* a second or later run of the loader completed
C17_Witness ==
    \E p \in Procs :
        /\ call[p].op = "seed run"
        /\ call[p].id >= 2
        /\ call[p].res = ReturnVal("void")
        /\ Baseline

(***************************************************************************)
(* C18.  A run of the seed loader on a database that holds the seeded rows *)
(* and rows written afterwards completes and leaves every table with the   *)
(* row count it had when the run started, no row twice.                    *)
(***************************************************************************)
SeedBefore(c) == (CHOOSE r \in c.row : TRUE).before

C18_ReseedKeepsCounts ==
    [][\A p \in Procs :
        (/\ Ends(p, "seed run")
         /\ SeedBefore(call'[p]).users >= 1
         /\ SeedBefore(call'[p]).categories = 4
         /\ SeedBefore(call'[p]).tags = 4) =>
            /\ call'[p].res = ReturnVal("void")
            /\ RowCounts' = SeedBefore(call'[p])
            /\ Cardinality(Ids(users')) = Cardinality(users')
            /\ Cardinality(Ids(categories')) = Cardinality(categories')
            /\ Cardinality(Ids(tags')) = Cardinality(tags')
    ]_vars

(***************************************************************************)
(* C19.  A rollback of the whole sequence ends with none of the seven      *)
(* tables left, whatever rows were inserted since the migrations were      *)
(* applied; resetDatabase ends, from any state, with all seven tables      *)
(* present and empty.                                                      *)
(***************************************************************************)
NoRows ==
    /\ users = {} /\ categories = {} /\ tags = {} /\ posts = {}
    /\ comments = {} /\ post_tags = {} /\ likes = {}

C19_RollbackAndReset ==
    \A p \in Procs :
        /\ (call[p].op = "migrate rollback" /\ call[p].pc = "done") =>
            /\ call[p].res = ReturnVal("void")
            /\ seq.tables = {}
            /\ NoRows
        /\ (call[p].op = "resetDatabase" /\ call[p].pc = "done") =>
            /\ call[p].res = ReturnVal("void")
            /\ seq.tables = {"users", "categories", "tags", "posts",
                             "comments", "post_tags", "likes"}
            /\ NoRows

\* resetDatabase ended on a database that held users, posts and comments
C19_Witness ==
    \E p \in Procs : \E r \in call[p].row :
        /\ call[p].op = "resetDatabase"
        /\ call[p].pc = "done"
        /\ r.before.users > 0 /\ r.before.posts > 0 /\ r.before.comments > 0
        /\ Cardinality(seq.tables) = 7
        /\ NoRows

(***************************************************************************)
(* C20.  deleted is terminal: a user row whose status is 'deleted' keeps   *)
(* that status for as long as the row exists, and no update of a deleted   *)
(* user changes its row.                                                   *)
(***************************************************************************)
C20_DeletedIsTerminal ==
    [][\A u \in users :
        u.status = "deleted" =>
            \A v \in users' : v.id = u.id => v = u
    ]_vars

(***************************************************************************)
(* C21.  softDelete(id) on an existing user changes the status column of   *)
(* that row to 'deleted' and nothing else: the row stays, is read back     *)
(* with every other column as before, and no post, comment, like or other  *)
(* row is removed.  On an absent id it returns null and changes nothing.   *)
(***************************************************************************)
IsSoftDelete(c) == c.op = "update" /\ c.input = SoftDeleteInput

Matching(filter) ==
    {u \in users : \A f \in DOMAIN filter : filter[f] # UNDEF => u[f] = filter[f]}

C22_FilterExact ==
    [][\A p \in Procs : \A filter \in call'[p].row :
        /\ Starts(p, "findAll") =>
              call'[p].res.rows = Matching(filter)
        /\ Starts(p, "count") =>
              call'[p].res.val = ToString(Cardinality(Matching(filter)))
    ]_vars

(***************************************************************************)
(* C23.  On a route guarded by authenticate the handler runs only for a    *)
(* request whose token was verified; a request with a missing or invalid   *)
(* token gets exactly one response, 401 UNAUTHORIZED, and its handler      *)
(* never runs.                                                             *)
(***************************************************************************)
C23_AuthenticateGuards ==
    \A p \in Procs :
        call[p].op = "GET /api/me" =>
            \A r \in call[p].row :
                /\ r.ran => r.token = "valid"
                /\ r.sent <= 1
                /\ (call[p].pc = "done" /\ r.token # "valid") =>
                      /\ r.sent = 1
                      /\ r.status = "401"
                      /\ r.code = "UNAUTHORIZED"
                      /\ ~r.ran

\* a request without a token was answered 401
C23_Witness ==
    \E p \in Procs : \E r \in call[p].row :
        /\ call[p].op = "GET /api/me"
        /\ call[p].pc = "done"
        /\ r.token = "none"
        /\ r.status = "401"
        /\ r.sent = 1

(***************************************************************************)
(* C24.  The error handler answers an error whose name or code is listed   *)
(* in the mapping table with the listed status and code, an unlisted error *)
(* without statusCode with 500 INTERNAL_SERVER_ERROR, and the statusCode   *)
(* of the body always equals the status of the reply.                      *)
(***************************************************************************)
\* the mapping table, as documented
Listed(key) ==
    CASE key \in {"ValidationError", "FST_ERR_VALIDATION"} -> {<<400, "VALIDATION_ERROR">>}
      [] key = "UnauthorizedError" -> {<<401, "UNAUTHORIZED">>}
      [] key = "ForbiddenError" -> {<<403, "FORBIDDEN">>}
      [] key = "NotFoundError" -> {<<404, "NOT_FOUND">>}
      [] key = "ConflictError" -> {<<409, "CONFLICT">>}
      [] key = "DatabaseError" -> {<<500, "DATABASE_ERROR">>}
      [] OTHER -> {}

Handled == {r \in UNION {call[p].row : p \in Procs} :
                \E p \in Procs : call[p].op = "errorHandler" /\ r \in call[p].row}

C28_StackOnlyInDevelopment ==
    \A h \in Handled :
        (h.reply.body.stack # UNDEF) <=> (h.env = "development" /\ h.reply.status >= 500)

\* a 500 answered in development carried the stack
C28_Witness ==
    \E h \in Handled :
        /\ h.env = "development"
        /\ h.reply.status >= 500
        /\ h.reply.body.stack = h.error.stack

TrxOperations ==
    {"createUser", "updateUser", "updatePassword", "create", "update", "delete"}

C27_UpdatedAtFollowsUpdate ==
    [][ /\ \A p \in DOMAIN call :
              (call'[p].op \in {"update", "updateUser", "updatePassword"}
                  /\ call'[p].pc = "update_findById" /\ call'[p] # call[p]) =>
                  \A u \in users' : u.id = call'[p].id => u.updated_at = seq.now
        /\ \A u \in users : \A v \in users' : v.id = u.id => v.created_at = u.created_at
      ]_vars


\* C29: no step of createUser, updateUser or updatePassword changes the role
\* or the status of a row, whatever role and status the input carries, and a
\* row that createUser adds has role 'user' and status 'active'.
C29_ServiceGrantsNothing ==
    [][ \A p \in DOMAIN call :
            (call'[p] # call[p]
                /\ call'[p].op \in {"createUser", "updateUser", "updatePassword"}) =>
                /\ \A u \in users : \E v \in users' :
                       v.id = u.id /\ v.role = u.role /\ v.status = u.status
                /\ \A v \in users' :
                       (\A u \in users : u.id # v.id) =>
                           /\ call'[p].op = "createUser"
                           /\ v.role = "user"
                           /\ v.status = "active" ]_vars

\* updateUser returned the row of an admin after an input that asked for role
\* 'user' and status 'deleted', and createUser left a plain user after an
\* input that asked for 'admin'
C29_Witness ==
    \E p \in DOMAIN call :
        /\ call[p].op = "updateUser"
        /\ call[p].pc = "done"
        /\ call[p].res.kind = "return"
        /\ call[p].input.role = "user"
        /\ call[p].input.status = "deleted"
        /\ \E u \in users : u.id = call[p].id /\ u.role = "admin" /\ u.status = "suspended"
        /\ \E u \in users : u.id # call[p].id /\ u.role = "user" /\ u.status = "active"


\* C30: at the step in which updatePassword(id, p) returns without error,
\* the row id exists and its password column holds a hash of p, also when
\* another caller deletes or updates the same user in between.
C30_UpdatePasswordPersists ==
    [][ \A p \in DOMAIN call :
            (Ends(p, "updatePassword") /\ call'[p].res.kind = "return") =>
                \E u \in users' :
                    /\ u.id = call'[p].id
                    /\ IsHashOf(u.password, call'[p].input.password) ]_vars

=============================================================================
